---- MODULE Spec2Model ----
(***************************************************************************)
(* Model of the article pipeline of media-assistant: the research cache    *)
(* (src/utils/cache.py), the research stage (src/agents/research_agent.py),*)
(* the composition stages and the pipeline orchestrator (src/pipeline.py). *)
(*                                                                         *)
(* Strings that the code inspects character by character (topics) are      *)
(* sequences of one-character strings.  SHA-256 is modelled as a           *)
(* collision-free digest: the digest of an input is the input itself.      *)
(***************************************************************************)
EXTENDS Integers, Sequences, FiniteSets, TLC

VARIABLES
    kin,            \* SpecKey: the arguments handed to get_cache_key
    kout,           \* SpecKey: the keys get_cache_key returned for them
    disk,           \* the cache directory: cache key -> directory content
    search_config,  \* ResearchAgent.search_config (<<>> when None)
    provider_config,\* search_provider.config (<<>> when the provider has none)
    rs,             \* the research call of this run: position and locals
    pl,             \* the pipeline run (ArticlePipeline.generate)
    st,             \* SpecStore: the last call on the ResearchCache (<<>> before one)
    ag,             \* SpecAgents: the call on a composition agent (<<>> before one)
    rt,             \* SpecRetry: the call through retry_with_backoff (<<>> before one)
    px,             \* SpecParser: the text handed to the section parser and its result
    cw              \* SpecRace: two runs inside save_research and the files of their key

vars == <<kin, kout, disk, search_config, provider_config, rs, pl, st, ag, rt, px, cw>>

(***************************************************************************)
(* Bounds                                                                  *)
(***************************************************************************)
MaxTopicLen == 2
MaxResultsArg == 2

(***************************************************************************)
(* Sequence helpers                                                        *)
(***************************************************************************)
Take(s, n) == SubSeq(s, 1, IF n < Len(s) THEN n ELSE Len(s))

SeqsUpTo(S, n) == UNION {[1..m -> S] : m \in 0..n}

RECURSIVE JoinWith(_, _)
JoinWith(parts, sep) ==
    IF Len(parts) = 0 THEN <<>>
    ELSE IF Len(parts) = 1 THEN parts[1]
    ELSE parts[1] \o <<sep>> \o JoinWith(Tail(parts), sep)

(***************************************************************************)
(* Characters of a topic string                                            *)
(***************************************************************************)
Chars == {"a", "A", " ", "!"}

IsSpace(c) == c = " "

IsAlnum(c) == c \in {"a", "A"}

Lower(c) ==
    IF c = "A" THEN "a"
    ELSE IF c = "HEADLINE" THEN "headline"
    ELSE IF c = "SECTION" THEN "section"
    ELSE c

RECURSIVE LStrip(_)
LStrip(s) == IF Len(s) > 0 /\ IsSpace(Head(s)) THEN LStrip(Tail(s)) ELSE s

RECURSIVE RStrip(_)
RStrip(s) ==
    IF Len(s) > 0 /\ IsSpace(s[Len(s)]) THEN RStrip(SubSeq(s, 1, Len(s) - 1)) ELSE s

Strip(s) == RStrip(LStrip(s))

LowerStr(s) == [i \in 1..Len(s) |-> Lower(s[i])]

(***************************************************************************)
(* ResearchCache: key derivation                                           *)
(***************************************************************************)
CACHE_VERSION == "1.0"

SanitizeMaxLength == 30

\* topic.strip().lower()
_normalize_topic(topic) == LowerStr(Strip(topic))

\* User contexts: None, the empty dict and two non-empty dicts.
NoCtx == "None"
EmptyCtx == "{}"
Ctxs == {NoCtx, EmptyCtx, "ctx1", "ctx2"}

\* "" for a falsy context, else the digest of its sorted-key JSON dump.
_hash_user_context(user_context) ==
    IF user_context \in {NoCtx, EmptyCtx} THEN <<>> ELSE <<"sha256", user_context>>

\* keep alphanumerics, ' ', '-', '_'; anything else becomes '_'; then
\* spaces become '_'; then truncate to max_length.
_sanitize_filename(text, max_length) ==
    LET kept == [i \in 1..Len(text) |->
                    IF IsAlnum(text[i]) \/ text[i] \in {" ", "-", "_"}
                    THEN text[i] ELSE "_"]
        nospace == [i \in 1..Len(kept) |-> IF kept[i] = " " THEN "_" ELSE kept[i]]
    IN  Take(nospace, max_length)

\* Search configurations: <<>> stands for None.
NoCfg == <<>>
Providers == {"exa", "google"}
MkCfg(p, m) == <<[provider |-> p, max_results |-> m]>>
\* str(n)
IntStr(n) == <<ToString(n)>>


get_cache_key(topic, user_context, cfg) ==
    LET normalized_topic == _normalize_topic(topic)
        context_hash == _hash_user_context(user_context)
        hash_components ==
            <<normalized_topic, context_hash>> \o
            (IF cfg # NoCfg
             THEN <<<<cfg[1].provider>>, IntStr(cfg[1].max_results)>>
             ELSE <<>>)
        hash_input == JoinWith(hash_components, "|")
        cache_hash == hash_input
        sanitized_topic == _sanitize_filename(topic, SanitizeMaxLength)
    IN  [hash |-> cache_hash, suffix |-> sanitized_topic]

(***************************************************************************)
(* SpecKey: get_cache_key applied to pairs of bounded arguments            *)
(***************************************************************************)
KeyTopics == SeqsUpTo(Chars, MaxTopicLen)

KeyCfgs == {NoCfg} \cup {MkCfg(p, m) : p \in Providers, m \in 1..MaxResultsArg}

(***************************************************************************)
(* URLs and source records                                                 *)
(***************************************************************************)
\* A URL is scheme://host/path with an optional trailing slash and an
\* optional query string; the empty string is EmptyUrl.
MkUrl(h, p, sl, q) == [host |-> h, path |-> p, slash |-> sl, query |-> q]
EmptyUrl == MkUrl("", "", FALSE, FALSE)
UrlA == MkUrl("ex.com", "/1", FALSE, FALSE)
UrlASlash == MkUrl("ex.com", "/1", TRUE, FALSE)
UrlB == MkUrl("ex.com", "/2", FALSE, FALSE)

\* scheme + host + path, query and fragment dropped, trailing '/' stripped.
normalize_url_for_dedup(url) ==
    IF url = EmptyUrl THEN EmptyUrl
    ELSE MkUrl(url.host, url.path, FALSE, FALSE)

\* A source record: SearchResult object or plain dict (kind), its url and
\* its title (the title tells the records of one URL apart).
MkSource(k, u, t) == [kind |-> k, url |-> u, title |-> t]

\* asdict(source) for every SearchResult, dicts are kept.
_serialize_search_results(sources) ==
    [i \in 1..Len(sources) |-> [sources[i] EXCEPT !.kind = "dict"]]

\* SearchResult(title=..., url=..., ...) for every dict.
_deserialize_search_results(sources_data) ==
    [i \in 1..Len(sources_data) |-> [sources_data[i] EXCEPT !.kind = "SearchResult"]]

(***************************************************************************)
(* ResearchCache: the store                                                *)
(***************************************************************************)
OldVersion == "0.9"

\* A file is <<>> when it does not exist, else <<[valid, content]>> where
\* valid is FALSE for a file that does not hold complete JSON.
NoFile == <<>>

NoResult ==
    [sources |-> <<>>, key_findings |-> "", context |-> "",
     search_queries |-> <<>>, user_context |-> <<>>]

NoMeta ==
    [version |-> "", topic |-> <<>>, user_context_hash |-> <<>>,
     search_provider |-> "", max_results |-> 0]

DataFile(data) == <<[valid |-> TRUE, content |-> data]>>
BrokenDataFile == <<[valid |-> FALSE, content |-> NoResult]>>
MetaFile(meta) == <<[valid |-> TRUE, content |-> meta]>>
BrokenMetaFile == <<[valid |-> FALSE, content |-> NoMeta]>>

\* No run is inside save_research.
NoSavers == <<>>

NoDir == [dir |-> FALSE, research |-> NoFile, metadata |-> NoFile]

\* An existence check that looks at the two files and not at the version.
cache_exists_any_version(d, topic, user_context, cfg) ==
    LET e == d[get_cache_key(topic, user_context, cfg)]
    IN  e.research # NoFile /\ e.metadata # NoFile

\* cache_exists: both files present and the metadata version is current.
cache_exists(d, topic, user_context, cfg) ==
    LET e == d[get_cache_key(topic, user_context, cfg)]
    IN  IF e.research = NoFile \/ e.metadata = NoFile THEN FALSE
        ELSE IF ~e.metadata[1].valid THEN FALSE
        ELSE e.metadata[1].content.version = CACHE_VERSION

\* load_research: <<>> for None, else <<data>> with the sources turned
\* back into SearchResult objects.  Reading a file that is not valid raises
\* inside the try and gives None.
load_research(d, topic, user_context, cfg) ==
    LET e == d[get_cache_key(topic, user_context, cfg)]
    IN  IF e.research = NoFile THEN <<>>
        ELSE IF ~e.research[1].valid THEN <<>>
        ELSE <<[e.research[1].content EXCEPT
                  !.sources = _deserialize_search_results(@)]>>

\* The outcomes of the file-system calls of save_research.
SaveOutcomes ==
    {"ok", "mkdir_fails", "data_open_fails", "data_write_fails",
     "meta_open_fails", "meta_write_fails"}

\* The directory of a key after save_research with file-system outcome io.
save_research_dir(e, topic, research_data, user_context, cfg, io) ==
    LET data_to_save ==
            [research_data EXCEPT !.sources = _serialize_search_results(@)]
        metadata ==
            [version |-> CACHE_VERSION,
             topic |-> topic,
             user_context_hash |-> _hash_user_context(user_context),
             search_provider |-> IF cfg # NoCfg THEN cfg[1].provider ELSE "unknown",
             max_results |-> IF cfg # NoCfg THEN cfg[1].max_results ELSE 10]
    IN  CASE io = "mkdir_fails" -> e
          [] io = "data_open_fails" -> [e EXCEPT !.dir = TRUE]
          [] io = "data_write_fails" ->
                [e EXCEPT !.dir = TRUE, !.research = BrokenDataFile]
          [] io = "meta_open_fails" ->
                [e EXCEPT !.dir = TRUE, !.research = DataFile(data_to_save)]
          [] io = "meta_write_fails" ->
                [e EXCEPT !.dir = TRUE, !.research = DataFile(data_to_save),
                          !.metadata = BrokenMetaFile]
          [] OTHER ->
                [dir |-> TRUE, research |-> DataFile(data_to_save),
                 metadata |-> MetaFile(metadata)]

\* save_research raises exactly when mkdir fails (it runs before the try).
save_research_raises(io) == io = "mkdir_fails"

\* The value save_research returns when it does not raise.
save_research_returns(io) == io = "ok"

\* The outcomes of shutil.rmtree in invalidate_cache: it removes the files
\* and then the directory, and may fail at any point on the way.
InvalidateOutcomes ==
    {"ok", "rmtree_fails_at_once", "rmtree_fails_after_research",
     "rmtree_fails_after_metadata", "rmtree_fails_at_rmdir"}

\* The directory of a key after invalidate_cache with file-system outcome
\* io; without the directory nothing is touched.
invalidate_cache_dir(e, io) ==
    IF ~e.dir THEN e
    ELSE CASE io = "rmtree_fails_at_once" -> e
           [] io = "rmtree_fails_after_research" -> [e EXCEPT !.research = NoFile]
           [] io = "rmtree_fails_after_metadata" -> [e EXCEPT !.metadata = NoFile]
           [] io = "rmtree_fails_at_rmdir" ->
                 [e EXCEPT !.research = NoFile, !.metadata = NoFile]
           [] OTHER -> NoDir

\* An invalidate_cache that answers by the presence of the directory alone.
invalidate_cache_returns_presence(e, io) == e.dir

\* The value invalidate_cache returns: True when the directory was there
\* and rmtree went through.
invalidate_cache_returns(e, io) == e.dir /\ io = "ok"

(***************************************************************************)
(* ResearchAgent.research                                                  *)
(***************************************************************************)
MaxGeneratedQueries == 5

MaxExecutedQueries == 3

ResearchTopics == {<<"a">>, <<"A">>}

ResearchCtxs == {NoCtx, "ctx1"}

ResearchUrls == {UrlA, UrlASlash, UrlB}

\* The class name of the search provider, lower-cased, without 'Provider'.
ProviderClassName == "exa"

ConfiguredCfg == MkCfg("exa", MaxResultsArg)

\* Every key a research call of the model can derive.
DiskKeys ==
    {get_cache_key(t, c, cfg) :
        t \in ResearchTopics, c \in ResearchCtxs,
        cfg \in {ConfiguredCfg} \cup {MkCfg(ProviderClassName, m) : m \in 1..MaxResultsArg}}

\* A search query: a line of the model's response (gen > 0) or the topic.
TopicQuery(topic) == [gen |-> 0, text |-> topic]
GeneratedQuery(i) == [gen |-> i, text |-> <<>>]

\* Responses of the model to the query-generation prompt, line by line:
\* a plain line, a line starting with '1.', '-', '*', or a blank line.
GenResponses ==
    {<<"bullet", "blank">>,
     <<"query", "blank", "query">>,
     <<"query", "query", "bullet", "query", "query", "query", "query">>}

RECURSIVE SelectIdx(_, _, _)
\* the indices i >= from of lines with kind k, in order
SelectIdx(lines, k, from) ==
    IF from > Len(lines) THEN <<>>
    ELSE (IF lines[from] = k THEN <<from>> ELSE <<>>) \o SelectIdx(lines, k, from + 1)

\* A query generation without the fallback to the topic.
_generate_search_queries_no_fallback(topic, failed, response) ==
    IF failed THEN <<>>
    ELSE LET idx == SelectIdx(response, "query", 1)
             queries == [i \in 1..Len(idx) |-> GeneratedQuery(idx[i])]
         IN  Take(queries, MaxGeneratedQueries)

\* _generate_search_queries: failed is TRUE when generate raises.
_generate_search_queries(topic, failed, response) ==
    IF failed THEN <<TopicQuery(topic)>>
    ELSE LET idx == SelectIdx(response, "query", 1)
             queries == [i \in 1..Len(idx) |-> GeneratedQuery(idx[i])]
         IN  IF queries = <<>> THEN <<TopicQuery(topic)>>
             ELSE Take(queries, MaxGeneratedQueries)

\* cache_search_config of research (lines 50-65)
cache_search_config(max_results) ==
    IF search_config # NoCfg THEN search_config
    ELSE IF provider_config # NoCfg THEN provider_config
    ELSE MkCfg(ProviderClassName, max_results)

RECURSIVE dedup_from(_, _)
\* the loop over all_results with the set seen_urls of raw url strings
dedup_from(results, seen_urls) ==
    IF results = <<>> THEN <<>>
    ELSE IF Head(results).url \notin seen_urls
         THEN <<Head(results)>> \o dedup_from(Tail(results), seen_urls \cup {Head(results).url})
         ELSE dedup_from(Tail(results), seen_urls)

remove_duplicates(all_results) == dedup_from(all_results, {})

limit_results(unique_results, max_results) == Take(unique_results, max_results)

\* Findings and context when no source is left (lines 134-140).
no_source_findings(user_context) ==
    IF user_context \notin {NoCtx, EmptyCtx} THEN "novel_aspect" ELSE "No relevant information found."

no_source_context(user_context) ==
    IF user_context \notin {NoCtx, EmptyCtx} THEN "technology_details" ELSE "Limited information available"

\* The result dict (lines 144-153).
build_result(sources, key_findings, context, search_queries, user_context) ==
    [sources |-> sources, key_findings |-> key_findings, context |-> context,
     search_queries |-> search_queries,
     user_context |-> IF user_context \notin {NoCtx, EmptyCtx} THEN <<user_context>> ELSE <<>>]

RsIdle ==
    [pc |-> "idle", topic |-> <<>>, max_results |-> 0, user_context |-> NoCtx,
     use_cache |-> FALSE, cfg |-> NoCfg, search_queries |-> <<>>, qi |-> 0,
     all_results |-> <<>>, unique_results |-> <<>>, key_findings |-> "",
     result |-> NoResult, cache_hit |-> FALSE, search_log |-> <<>>,
     gen_calls |-> 0, queries_failed |-> FALSE, save_ok |-> <<>>,
     prev |-> <<>>]

\* A research call that consults the cache only after generating queries.
Research_searches_first(topic, max_results, user_context, use_cache) ==
    /\ rs.pc = "idle"
    /\ rs' = [RsIdle EXCEPT !.topic = topic, !.max_results = max_results,
                            !.user_context = user_context,
                            !.use_cache = use_cache,
                            !.cfg = cache_search_config(max_results),
                            !.pc = "gen_queries"]
    /\ UNCHANGED <<st, ag, rt, px, kin, kout, disk, search_config, provider_config, pl, cw>>

\* A research call that loads from the cache whatever use_cache says.
Research_ignores_use_cache(topic, max_results, user_context, use_cache) ==
    /\ rs.pc = "idle"
    /\ LET cfg == cache_search_config(max_results)
           cached == load_research(disk, topic, user_context, cfg)
           call == [RsIdle EXCEPT !.topic = topic, !.max_results = max_results,
                                   !.user_context = user_context,
                                   !.use_cache = use_cache, !.cfg = cfg]
       IN  rs' = IF cached # <<>>
                 THEN [call EXCEPT !.pc = "returned", !.result = cached[1],
                                   !.cache_hit = TRUE]
                 ELSE [call EXCEPT !.pc = "gen_queries"]
    /\ UNCHANGED <<st, ag, rt, px, kin, kout, disk, search_config, provider_config, pl, cw>>

\* research is called: the cache is consulted first (lines 50-78).
Research(topic, max_results, user_context, use_cache) ==
    /\ rs.pc = "idle"
    /\ LET cfg == cache_search_config(max_results)
           cached == IF use_cache
                     THEN load_research(disk, topic, user_context, cfg)
                     ELSE <<>>
           call == [RsIdle EXCEPT !.topic = topic, !.max_results = max_results,
                                   !.user_context = user_context,
                                   !.use_cache = use_cache, !.cfg = cfg]
       IN  rs' = IF cached # <<>>
                 THEN [call EXCEPT !.pc = "returned", !.result = cached[1],
                                   !.cache_hit = TRUE]
                 ELSE [call EXCEPT !.pc = "gen_queries"]
    /\ UNCHANGED <<st, ag, rt, px, kin, kout, disk, search_config, provider_config, pl, cw>>

\* What is kept of a call that returned: how it ended, its result, and how
\* many of its search calls were issued and failed.
CallSummary(r) ==
    [pc |-> r.pc, use_cache |-> r.use_cache, cache_hit |-> r.cache_hit,
     save_ok |-> r.save_ok, result |-> r.result,
     searches |-> Len(r.search_log),
     failed_searches |-> Len(SelectSeq(r.search_log, LAMBDA e : ~e.ok))]

\* The following research call on the same agent with the same arguments
\* (lines 50-78); prev keeps the summary of the call before.
ResearchAgain ==
    /\ rs.pc = "returned" /\ rs.prev = <<>>
    /\ LET cfg == cache_search_config(rs.max_results)
           cached == IF rs.use_cache
                     THEN load_research(disk, rs.topic, rs.user_context, cfg)
                     ELSE <<>>
           call == [RsIdle EXCEPT !.topic = rs.topic, !.max_results = rs.max_results,
                                   !.user_context = rs.user_context,
                                   !.use_cache = rs.use_cache, !.cfg = cfg,
                                   !.prev = <<CallSummary(rs)>>]
       IN  rs' = IF cached # <<>>
                 THEN [call EXCEPT !.pc = "returned", !.result = cached[1],
                                   !.cache_hit = TRUE]
                 ELSE [call EXCEPT !.pc = "gen_queries"]
    /\ UNCHANGED <<st, ag, rt, px, kin, kout, disk, search_config, provider_config, pl, cw>>

\* Step 1: one generation call produces the search queries (line 81).
GenerateQueries(failed, response) ==
    /\ rs.pc = "gen_queries"
    /\ rs' = [rs EXCEPT !.pc = "search", !.qi = 1,
                        !.gen_calls = @ + 1,
                        !.queries_failed = failed,
                        !.search_queries =
                            _generate_search_queries(rs.topic, failed, response)]
    /\ UNCHANGED <<st, ag, rt, px, kin, kout, disk, search_config, provider_config, pl, cw>>

\* A research that returns its placeholder result without saving it.
after_searches_skips_placeholder(r) ==
    LET unique == limit_results(remove_duplicates(r.all_results), r.max_results)
    IN  IF unique # <<>>
        THEN [r EXCEPT !.pc = "synthesize", !.unique_results = unique]
        ELSE [r EXCEPT !.pc = "returned",
                       !.unique_results = unique,
                       !.result = build_result(unique,
                                      no_source_findings(r.user_context),
                                      no_source_context(r.user_context),
                                      r.search_queries, r.user_context)]

\* The state after the search loop: deduplicate, truncate and, when no
\* source is left, assemble the placeholder result (lines 109-153).
after_searches(r) ==
    LET unique == limit_results(remove_duplicates(r.all_results), r.max_results)
    IN  IF unique # <<>>
        THEN [r EXCEPT !.pc = "synthesize", !.unique_results = unique]
        ELSE [r EXCEPT !.pc = IF r.use_cache THEN "save" ELSE "returned",
                       !.unique_results = unique,
                       !.result = build_result(unique,
                                      no_source_findings(r.user_context),
                                      no_source_context(r.user_context),
                                      r.search_queries, r.user_context)]

\* A search loop that gives up at the first failing search call.
Search_stops_at_failure(ok, results) ==
    /\ rs.pc = "search"
    /\ LET queries_to_execute == Take(rs.search_queries, MaxExecutedQueries)
           r == [rs EXCEPT !.qi = @ + 1,
                           !.search_log = Append(@, [query |-> queries_to_execute[rs.qi],
                                                     ok |-> ok, results |-> results]),
                           !.all_results = IF ok THEN @ \o results ELSE @]
       IN  rs' = IF ok /\ rs.qi < Len(queries_to_execute) THEN r ELSE after_searches(r)
    /\ UNCHANGED <<st, ag, rt, px, kin, kout, disk, search_config, provider_config, pl, cw>>

\* Step 2: the next of the first three queries is searched (lines 90-107);
\* a search call that raises is logged and skipped.
Search(ok, results) ==
    /\ rs.pc = "search"
    /\ LET queries_to_execute == Take(rs.search_queries, MaxExecutedQueries)
           r == [rs EXCEPT !.qi = @ + 1,
                           !.search_log = Append(@, [query |-> queries_to_execute[rs.qi],
                                                     ok |-> ok, results |-> results]),
                           !.all_results = IF ok THEN @ \o results ELSE @]
       IN  rs' = IF rs.qi < Len(queries_to_execute) THEN r ELSE after_searches(r)
    /\ UNCHANGED <<st, ag, rt, px, kin, kout, disk, search_config, provider_config, pl, cw>>

\* Step 3a: _synthesize_findings, one generation call with a fallback.
Synthesize(failed) ==
    /\ rs.pc = "synthesize"
    /\ rs' = [rs EXCEPT !.pc = "extract", !.gen_calls = @ + 1,
                        !.key_findings = IF failed THEN "snippets" ELSE "generated"]
    /\ UNCHANGED <<st, ag, rt, px, kin, kout, disk, search_config, provider_config, pl, cw>>

\* Step 3b: _extract_context, one generation call with a fallback; the
\* result is assembled (lines 133, 144-153).
ExtractContext(failed) ==
    /\ rs.pc = "extract"
    /\ rs' = [rs EXCEPT !.pc = IF rs.use_cache THEN "save" ELSE "returned",
                        !.gen_calls = @ + 1,
                        !.result = build_result(rs.unique_results, rs.key_findings,
                                       IF failed THEN "template" ELSE "generated",
                                       rs.search_queries, rs.user_context)]
    /\ UNCHANGED <<st, ag, rt, px, kin, kout, disk, search_config, provider_config, pl, cw>>

\* Save to cache (lines 155-161): save_research is not guarded by research.
SaveToCache(io) ==
    /\ rs.pc = "save"
    /\ LET k == get_cache_key(rs.topic, rs.user_context, rs.cfg)
       IN  /\ io = "mkdir_fails" => ~disk[k].dir
           /\ disk' = [disk EXCEPT ![k] =
                          save_research_dir(@, rs.topic, rs.result,
                                            rs.user_context, rs.cfg, io)]
    /\ rs' = IF save_research_raises(io)
              THEN [rs EXCEPT !.pc = "raised"]
              ELSE [rs EXCEPT !.pc = "returned",
                              !.save_ok = <<save_research_returns(io)>>]
    /\ UNCHANGED <<st, ag, rt, px, kin, kout, search_config, provider_config, pl, cw>>

\* The url lists one search call can return.
SearchUrlLists == {<<>>, <<UrlA>>, <<UrlASlash>>, <<UrlB>>}

\* The results one search call can return for query number qi; the title of
\* a record names the query and the rank it was returned at.
SearchResults(qi) ==
    {[i \in 1..Len(us) |-> MkSource("SearchResult", us[i], <<qi, i>>)] :
        us \in SearchUrlLists}

(***************************************************************************)
(* Spec: the research stage beside the cache                               *)
(***************************************************************************)
NoKeyRun == [t1 |-> <<>>, t2 |-> <<>>, ctx |-> NoCtx, cfg |-> NoCfg]

\* generate has not been called; the configuration is loaded.  The
\* arguments of generate are filled in by its first step.
PlConfigured(enabled, passes, include_sources, max_results) ==
    [pc |-> "idle",
     humanizer_enabled |-> enabled, humanizer_passes |-> passes,
     include_sources |-> include_sources,
     search_max_results |-> max_results,
     topic |-> <<>>, media_type |-> "", length |-> "",
     research_calls |-> 0,
     research_sources |-> <<>>,
     article_dict |-> <<>>, edit_parsed |-> <<>>, edited_dict |-> <<>>,
     pass_num |-> 0, current_dict |-> <<>>, humanized_dict |-> <<>>,
     final_dict |-> <<>>, sources_block |-> <<>>,
     failed |-> {}, raised_by |-> "",
     gen_calls |-> [writer |-> 0, editor |-> 0, humanizer |-> 0, formatter |-> 0]]

PlIdle == PlConfigured(FALSE, 1, FALSE, 10)

\* An entry left in the cache directory by an earlier run of the program
\* (of this release or of one with another CACHE_VERSION).
LeftoverDir(topic, user_context, cfg, version) ==
    LET sources == Take(<<MkSource("dict", UrlA, <<1, 1>>),
                          MkSource("dict", UrlB, <<2, 1>>)>>, cfg[1].max_results)
        data == build_result(sources, "generated", "generated",
                             <<TopicQuery(topic)>>, user_context)
        meta == [version |-> version, topic |-> topic,
                 user_context_hash |-> _hash_user_context(user_context),
                 search_provider |-> cfg[1].provider,
                 max_results |-> cfg[1].max_results]
    IN  [dir |-> TRUE, research |-> DataFile(data), metadata |-> MetaFile(meta)]

EmptyDisk == [k \in DiskKeys |-> NoDir]

\* A directory left by an earlier run whose save failed while writing the
\* data file.
LeftoverBrokenDir == [dir |-> TRUE, research |-> BrokenDataFile, metadata |-> NoFile]

\* The cache directory survives construction (mkdir with exist_ok): it is
\* empty or holds one leftover entry.
InitDisks ==
    {EmptyDisk} \cup
    {[EmptyDisk EXCEPT ![get_cache_key(t, NoCtx, ConfiguredCfg)] =
                           LeftoverDir(t, NoCtx, ConfiguredCfg, v)] :
        t \in ResearchTopics, v \in {CACHE_VERSION, OldVersion}} \cup
    {[EmptyDisk EXCEPT ![get_cache_key(t, NoCtx, ConfiguredCfg)] = LeftoverBrokenDir] :
        t \in ResearchTopics}

\* The agent as the pipeline builds it (both configs set), as built without
\* a search_config around a real provider, and around a provider that has
\* no config attribute.
AgentSetups ==
    {<<ConfiguredCfg, ConfiguredCfg>>, <<NoCfg, ConfiguredCfg>>, <<NoCfg, NoCfg>>}

Init ==
    /\ kin = NoKeyRun
    /\ st = <<>> /\ ag = <<>> /\ rt = <<>> /\ px = <<>>
    /\ kout = <<>>
    /\ pl = PlIdle
    /\ disk \in InitDisks
    /\ \E a \in AgentSetups : search_config = a[1] /\ provider_config = a[2]
    /\ rs = RsIdle
    /\ cw = NoSavers

Next ==
    \/ \E topic \in ResearchTopics, max_results \in 1..MaxResultsArg,
          user_context \in ResearchCtxs, use_cache \in BOOLEAN :
            Research(topic, max_results, user_context, use_cache)
    \/ \E failed \in BOOLEAN, response \in GenResponses : GenerateQueries(failed, response)
    \/ \E ok \in BOOLEAN : \E results \in SearchResults(rs.qi) :
            (ok \/ results = <<>>) /\ Search(ok, results)
    \/ \E failed \in BOOLEAN : Synthesize(failed)
    \/ \E failed \in BOOLEAN : ExtractContext(failed)
    \/ \E io \in SaveOutcomes : SaveToCache(io)

Spec == Init /\ [][Next]_vars

(***************************************************************************)
(* SpecRepeat: two research calls in a row on one agent                    *)
(***************************************************************************)
\* The agent is the one the pipeline builds; the cache directory is empty
\* or holds a leftover of a failed save.
InitRepeat ==
    /\ kin = NoKeyRun
    /\ st = <<>> /\ ag = <<>> /\ rt = <<>> /\ px = <<>>
    /\ kout = <<>>
    /\ pl = PlIdle
    /\ disk \in {EmptyDisk} \cup
                {[EmptyDisk EXCEPT ![get_cache_key(t, NoCtx, ConfiguredCfg)] = LeftoverBrokenDir] :
                    t \in ResearchTopics}
    /\ search_config = ConfiguredCfg /\ provider_config = ConfiguredCfg
    /\ rs = RsIdle
    /\ cw = NoSavers

\* The responses to the query-generation prompt with at most two queries.
RepeatResponses == {r \in GenResponses : Len(SelectIdx(r, "query", 1)) < MaxExecutedQueries}

NextRepeat ==
    \/ \E user_context \in ResearchCtxs :
            Research(<<"a">>, MaxResultsArg, user_context, TRUE)
    \/ ResearchAgain
    \/ \E failed \in BOOLEAN, response \in RepeatResponses : GenerateQueries(failed, response)
    \/ \E ok \in BOOLEAN : \E results \in SearchResults(rs.qi) :
            (ok \/ results = <<>>) /\ Search(ok, results)
    \/ \E failed \in BOOLEAN : Synthesize(failed)
    \/ \E failed \in BOOLEAN : ExtractContext(failed)
    \/ \E io \in SaveOutcomes : SaveToCache(io)

SpecRepeat == InitRepeat /\ [][NextRepeat]_vars

(***************************************************************************)
(* SpecKey: get_cache_key applied to two topics                            *)
(***************************************************************************)
InitKey ==
    /\ kin \in [t1 : KeyTopics, t2 : KeyTopics, ctx : Ctxs, cfg : KeyCfgs]
    /\ st = <<>> /\ ag = <<>> /\ rt = <<>> /\ px = <<>>
    /\ kout = <<>>
    /\ pl = PlIdle
    /\ disk = EmptyDisk
    /\ search_config = NoCfg
    /\ provider_config = NoCfg
    /\ rs = RsIdle
    /\ cw = NoSavers

\* get_cache_key is called for both topics with the same context and config.
ComputeKeys ==
    /\ kout = <<>>
    /\ kout' = <<get_cache_key(kin.t1, kin.ctx, kin.cfg),
                 get_cache_key(kin.t2, kin.ctx, kin.cfg)>>
    /\ UNCHANGED <<st, ag, rt, px, kin, disk, search_config, provider_config, rs, pl, cw>>

NextKey == ComputeKeys

SpecKey == InitKey /\ [][NextKey]_vars

(***************************************************************************)
(* SpecStore: calls on a ResearchCache from outside the research stage     *)
(***************************************************************************)
\* The entries the store calls of the model address: one per topic.
StoreTopics == ResearchTopics

\* The research results handed to save_research: without and with a source.
StoreResults ==
    {build_result(<<>>, no_source_findings(NoCtx), no_source_context(NoCtx),
                  <<TopicQuery(t)>>, NoCtx) : t \in StoreTopics} \cup
    {build_result(<<MkSource("SearchResult", UrlB, <<1, 1>>)>>, "generated", "generated",
                  <<TopicQuery(t)>>, NoCtx) : t \in StoreTopics}

\* The record of a call: what was asked, whether it raised, the boolean it
\* returned (exists, save) and the data it returned (load; <<>> for None).
StoreCall(op, topic, raised, ok, data) ==
    <<[op |-> op, topic |-> topic, user_context |-> NoCtx, cfg |-> ConfiguredCfg,
       raised |-> raised, ok |-> ok, data |-> data]>>

InitStore ==
    /\ kin = NoKeyRun
    /\ kout = <<>>
    /\ st = <<>> /\ ag = <<>> /\ rt = <<>> /\ px = <<>>
    /\ pl = PlIdle
    /\ disk \in InitDisks
    /\ search_config = NoCfg
    /\ provider_config = NoCfg
    /\ rs = RsIdle
    /\ cw = NoSavers

\* cache.cache_exists(topic, user_context, search_config)
StoreExists(topic) ==
    /\ st' = StoreCall("exists", topic, FALSE,
                       cache_exists(disk, topic, NoCtx, ConfiguredCfg), <<>>)
    /\ UNCHANGED <<ag, rt, px, kin, kout, disk, search_config, provider_config, rs, pl, cw>>

\* cache.load_research(topic, user_context, search_config)
StoreLoad(topic) ==
    /\ st' = StoreCall("load", topic, FALSE, FALSE,
                       load_research(disk, topic, NoCtx, ConfiguredCfg))
    /\ UNCHANGED <<ag, rt, px, kin, kout, disk, search_config, provider_config, rs, pl, cw>>

\* cache.save_research(topic, research_data, user_context, search_config)
\* with file-system outcome io; mkdir succeeds on an existing directory.
StoreSave(topic, research_data, io) ==
    LET k == get_cache_key(topic, NoCtx, ConfiguredCfg)
    IN  /\ io = "mkdir_fails" => ~disk[k].dir
        /\ disk' = [disk EXCEPT ![k] = save_research_dir(@, topic, research_data,
                                                         NoCtx, ConfiguredCfg, io)]
        /\ st' = StoreCall("save", topic, save_research_raises(io),
                           save_research_returns(io), <<>>)
        /\ UNCHANGED <<ag, rt, px, kin, kout, search_config, provider_config, rs, pl, cw>>

\* cache.invalidate_cache(topic, user_context, search_config) with
\* file-system outcome io.
StoreInvalidate(topic, io) ==
    LET k == get_cache_key(topic, NoCtx, ConfiguredCfg)
    IN  /\ disk' = [disk EXCEPT ![k] = invalidate_cache_dir(@, io)]
        /\ st' = StoreCall("invalidate", topic, FALSE,
                           invalidate_cache_returns(disk[k], io), <<>>)
        /\ UNCHANGED <<ag, rt, px, kin, kout, search_config, provider_config, rs, pl, cw>>

NextStore ==
    \/ \E topic \in StoreTopics : StoreExists(topic)
    \/ \E topic \in StoreTopics : StoreLoad(topic)
    \/ \E topic \in StoreTopics, io \in InvalidateOutcomes : StoreInvalidate(topic, io)
    \/ \E topic \in StoreTopics, research_data \in StoreResults, io \in SaveOutcomes :
          StoreSave(topic, research_data, io)

SpecStore == InitStore /\ [][NextStore]_vars

(***************************************************************************)
(* SpecRace: two runs inside save_research on the same cache key           *)
(***************************************************************************)
\* A position of a file that was never written (a hole after a truncation).
NUL == "NUL"

\* json.dump(data, f): the document of a dict, its values between braces.
json_dump(data) == <<"{">> \o data \o <<"}">>

\* json.load(f): <<values>> of a document, <<>> when the content is not one
\* (JSONDecodeError, caught by the callers).
json_load(content) ==
    IF /\ Len(content) >= 2
       /\ content[1] = "{"
       /\ content[Len(content)] = "}"
       /\ \A i \in 2..(Len(content) - 1) : content[i] \notin {"{", "}", NUL}
    THEN <<SubSeq(content, 2, Len(content) - 1)>>
    ELSE <<>>

\* write(2) of chunk at offset off of a file opened without O_APPEND: the
\* positions of the chunk are replaced, the rest of the file stays, a gap
\* between the end of the file and off reads as NUL.
write_at(content, off, chunk) ==
    LET end == IF off + Len(chunk) > Len(content) THEN off + Len(chunk) ELSE Len(content)
    IN  [i \in 1..end |->
            IF i > off /\ i <= off + Len(chunk) THEN chunk[i - off]
            ELSE IF i <= Len(content) THEN content[i]
            ELSE NUL]

\* The research data the two runs save: the findings and one value per
\* source.
RaceResults ==
    {<<"findings_a">>, <<"findings_b", "source_b">>, <<"findings_c", "source_c">>}

\* datetime.now().isoformat() of each run.
Timestamp == <<"timestamp_1", "timestamp_2">>

\* asdict(metadata) of run w: the version first; topic, hash and
\* configuration are the same for one key.
race_metadata(w) == <<CACHE_VERSION, Timestamp[w]>>

Savers == 1..2

\* A run at the start of save_research with its research_data.
SaverAt(data) == [pc |-> "mkdir", data |-> data, buf |-> <<>>, off |-> 0]

InitRace ==
    /\ kin = NoKeyRun
    /\ kout = <<>>
    /\ st = <<>> /\ ag = <<>> /\ rt = <<>> /\ px = <<>>
    /\ pl = PlIdle
    /\ disk = EmptyDisk
    /\ search_config = NoCfg
    /\ provider_config = NoCfg
    /\ rs = RsIdle
    /\ \E r1 \in RaceResults, r2 \in RaceResults :
          cw = [dir |-> FALSE, research |-> NoFile, metadata |-> NoFile,
                s |-> <<SaverAt(r1), SaverAt(r2)>>]

\* cache_path.mkdir(parents=True, exist_ok=True)
SaverMkdir(w) ==
    /\ cw.s[w].pc = "mkdir"
    /\ cw' = [cw EXCEPT !.dir = TRUE, !.s[w].pc = "open_data"]
    /\ UNCHANGED <<kin, kout, disk, search_config, provider_config, rs, pl, st, ag, rt, px>>

\* open(research_file, 'w') and open(metadata_file, 'w'): the file is
\* created or truncated, the run's offset is 0, json.dump fills the buffer.
SaverOpen(w) ==
    /\ cw.s[w].pc \in {"open_data", "open_meta"}
    /\ cw' = IF cw.s[w].pc = "open_data"
             THEN [cw EXCEPT !.research = <<<<>>>>,
                             !.s[w] = [@ EXCEPT !.pc = "write_data", !.off = 0,
                                                !.buf = json_dump(cw.s[w].data)]]
             ELSE [cw EXCEPT !.metadata = <<<<>>>>,
                             !.s[w] = [@ EXCEPT !.pc = "write_meta", !.off = 0,
                                                !.buf = json_dump(race_metadata(w))]]
    /\ UNCHANGED <<kin, kout, disk, search_config, provider_config, rs, pl, st, ag, rt, px>>

\* One flush of the buffered writer: the next n values of the document go
\* to the file at the run's offset; after the last one the file is closed
\* and save_research goes on (lines 305-327).
SaverWrite(w, n) ==
    /\ cw.s[w].pc \in {"write_data", "write_meta"}
    /\ n \in 1..Len(cw.s[w].buf)
    /\ LET sv == cw.s[w]
           chunk == SubSeq(sv.buf, 1, n)
           rest == SubSeq(sv.buf, n + 1, Len(sv.buf))
           data_file == sv.pc = "write_data"
           next_pc == IF rest # <<>> THEN sv.pc
                      ELSE IF data_file THEN "open_meta" ELSE "returned"
           after == [sv EXCEPT !.buf = rest, !.off = @ + n, !.pc = next_pc]
       IN  cw' = IF data_file
                 THEN [cw EXCEPT !.research = <<write_at(@[1], sv.off, chunk)>>,
                                 !.s[w] = after]
                 ELSE [cw EXCEPT !.metadata = <<write_at(@[1], sv.off, chunk)>>,
                                 !.s[w] = after]
    /\ UNCHANGED <<kin, kout, disk, search_config, provider_config, rs, pl, st, ag, rt, px>>

\* cache_exists on the files of the key.
race_cache_exists ==
    /\ cw.research # NoFile /\ cw.metadata # NoFile
    /\ json_load(cw.metadata[1]) # <<>>
    /\ json_load(cw.metadata[1])[1] # <<>>
    /\ json_load(cw.metadata[1])[1][1] = CACHE_VERSION

\* load_research on the files of the key: <<>> for None.
race_load_research ==
    IF cw.research = NoFile THEN <<>> ELSE json_load(cw.research[1])

NextRace ==
    \/ \E w \in Savers : SaverMkdir(w)
    \/ \E w \in Savers : SaverOpen(w)
    \/ \E w \in Savers : \E n \in 1..Len(cw.s[w].buf) : SaverWrite(w, n)

SpecRace == InitRace /\ [][NextRace]_vars

(***************************************************************************)
(* SpecRetry: a function called through retry_with_backoff                 *)
(***************************************************************************)
MaxRetries == 3

BackoffFactor == 2

InitialDelay == 1

MaxDelay == 60

\* What the wrapped function does on a failing attempt:
\*   requests  raises a requests.exceptions.RequestException
\*   other     raises an exception of another class
\*   status    returns a requests.Response with a retryable status code
FailureKinds == {"requests", "other", "status"}

\* The default retryable_exceptions (lines 34-39).
retryable_exceptions == {"requests", "http_error"}

InitRetry ==
    /\ kin = NoKeyRun
    /\ kout = <<>>
    /\ st = <<>> /\ ag = <<>> /\ rt = <<>> /\ px = <<>>
    /\ pl = PlIdle
    /\ disk = EmptyDisk
    /\ search_config = NoCfg
    /\ provider_config = NoCfg
    /\ rs = RsIdle
    /\ cw = NoSavers

\* The wrapper is entered (lines 46-48) around a function that fails on its
\* first `fails` calls in the way `kind` and succeeds afterwards.
RetryInvoke(max_retries, fails, kind) ==
    /\ rt = <<>>
    /\ rt' = <<[max_retries |-> max_retries, fails |-> fails, kind |-> kind,
                transport |-> "none",
                attempt |-> 0, calls |-> 0, delay |-> InitialDelay, sleeps |-> 0,
                pc |-> "attempt", raised |-> "none"]>>
    /\ UNCHANGED <<st, ag, px, kin, kout, disk, search_config, provider_config, rs, pl, cw>>

\* max_retries of the decorator on the providers' generate and search.
ProviderMaxRetries == 3

\* What the transport under a provider call does on a failing attempt:
\* requests raises Timeout, ConnectionError, or, from raise_for_status on a
\* retryable status, HTTPError.
TransportFailures == {"timeout", "connection_error", "http_error"}

\* The exception the body of generate (llm.py lines 197-261) and of search
\* (search.py lines 82-136) raises for a transport failure: each except
\* branch raises the provider's own error class.
provider_raises(transport) == "provider_error"

\* PerplexityProvider.generate or ExaProvider.search is called through its
\* decorator; the transport fails on the first `fails` attempts.
ProviderInvoke(fails, transport) ==
    /\ rt = <<>>
    /\ rt' = <<[max_retries |-> ProviderMaxRetries, fails |-> fails,
                kind |-> provider_raises(transport), transport |-> transport,
                attempt |-> 0, calls |-> 0, delay |-> InitialDelay, sleeps |-> 0,
                pc |-> "attempt", raised |-> "none"]>>
    /\ UNCHANGED <<st, ag, px, kin, kout, disk, search_config, provider_config, rs, pl, cw>>

\* delay = min(delay * backoff_factor, max_delay)
next_delay(delay) ==
    IF delay * BackoffFactor < MaxDelay THEN delay * BackoffFactor ELSE MaxDelay

\* One iteration of the loop of the wrapper (lines 50-92): the function is
\* called; a retryable status or exception sleeps and goes round again
\* while attempts remain, another exception is raised at once.
retry_iteration(r) ==
    LET c == [r EXCEPT !.calls = @ + 1]
        again == [c EXCEPT !.attempt = @ + 1, !.sleeps = @ + 1,
                           !.delay = next_delay(@)]
    IN  IF c.calls > r.fails THEN [c EXCEPT !.pc = "returned"]
        ELSE IF r.kind = "status"
        THEN IF r.attempt < r.max_retries THEN again
             ELSE [c EXCEPT !.pc = "raised", !.raised = "http_error"]
        ELSE IF r.kind \in retryable_exceptions
        THEN IF r.attempt < r.max_retries THEN again
             ELSE [c EXCEPT !.pc = "raised", !.raised = r.kind]
        ELSE [c EXCEPT !.pc = "raised", !.raised = r.kind]

RetryAttempt ==
    /\ rt # <<>> /\ rt[1].pc = "attempt"
    /\ rt' = <<retry_iteration(rt[1])>>
    /\ UNCHANGED <<st, ag, px, kin, kout, disk, search_config, provider_config, rs, pl, cw>>

NextRetry ==
    \/ \E max_retries \in 0..MaxRetries, fails \in 0..(MaxRetries + 1),
          kind \in FailureKinds : RetryInvoke(max_retries, fails, kind)
    \/ \E fails \in 0..(ProviderMaxRetries + 1), transport \in TransportFailures :
          ProviderInvoke(fails, transport)
    \/ RetryAttempt

SpecRetry == InitRetry /\ [][NextRetry]_vars

(***************************************************************************)
(* Section maps and the composition stages                                 *)
(***************************************************************************)
MaxConfiguredPasses == 4

MinPasses == 1

MaxPasses == 3

\* The section names a stage output can carry.
SectionNames == {"headline", "opening", "sources"}

\* Section bodies are named after the stage that wrote them.
PassBody == <<"humanized1", "humanized2", "humanized3">>

\* Every section map a parse can return with bodies written by one stage.
ParsedMaps(body) == {[k \in D |-> body] : D \in SUBSET SectionNames}

\* A merge that walks the keys of the parse instead of the original's.
merge_over_parsed_keys(article_dict, parsed_dict) ==
    [section_name \in DOMAIN parsed_dict |-> parsed_dict[section_name]]

\* The merge loop of EditorAgent.edit and HumanizerAgent.humanize: the keys
\* of the original, the parsed body where the parse has the key.
merge_with_original(article_dict, parsed_dict) ==
    [section_name \in DOMAIN article_dict |->
        IF section_name \in DOMAIN parsed_dict
        THEN parsed_dict[section_name]
        ELSE article_dict[section_name]]

\* self.passes = max(1, min(3, passes))
clamp_passes(passes) ==
    LET m == IF passes < MaxPasses THEN passes ELSE MaxPasses
    IN  IF m > MinPasses THEN m ELSE MinPasses

\* A pipeline that leaves the sources sections in the map.
strip_nothing(d) == d

\* del humanized_dict['sources'] / ['references'] (pipeline lines 222-227)
strip_sources_sections(d) ==
    [k \in DOMAIN d \ {"sources", "references"} |-> d[k]]

(***************************************************************************)
(* Source formatting                                                       *)
(***************************************************************************)
MinSourcesChars == 50

\* A text is a sequence of lines; a line is known by its kind:
\*   blank      whitespace only
\*   src_hdr    "## Sources"
\*   other_hdr  another line starting with "##"
\*   short      plain text of 20 characters
\*   long       plain text of 60 characters
\*   item       a numbered "[title](url)" entry of the fallback formatter
LineLen(kind) ==
    CASE kind = "blank" -> 0
      [] kind = "src_hdr" -> 10
      [] kind = "other_hdr" -> 13
      [] kind = "short" -> 20
      [] kind = "long" -> 60
      [] OTHER -> 40

RECURSIVE SumLen(_)
SumLen(lines) == IF lines = <<>> THEN 0 ELSE LineLen(Head(lines)) + SumLen(Tail(lines))

\* len("\n".join(lines))
TextLen(lines) == IF lines = <<>> THEN 0 ELSE SumLen(lines) + Len(lines) - 1

RECURSIVE DropLeadingBlank(_)
DropLeadingBlank(lines) ==
    IF lines # <<>> /\ Head(lines) = "blank" THEN DropLeadingBlank(Tail(lines)) ELSE lines

RECURSIVE DropTrailingBlank(_)
DropTrailingBlank(lines) ==
    IF lines # <<>> /\ lines[Len(lines)] = "blank"
    THEN DropTrailingBlank(SubSeq(lines, 1, Len(lines) - 1)) ELSE lines

\* text.strip()
StripText(lines) == DropTrailingBlank(DropLeadingBlank(lines))

StartsWithHashes(lines) == lines # <<>> /\ Head(lines) \in {"src_hdr", "other_hdr"}

RECURSIVE dedup_normalized(_, _)
\* the loop of format_sources over the sources with the set seen_urls of
\* normalized urls; a source with an empty url is dropped
dedup_normalized(sources, seen_urls) ==
    IF sources = <<>> THEN <<>>
    ELSE LET normalized_url == normalize_url_for_dedup(Head(sources).url)
         IN  IF normalized_url # EmptyUrl /\ normalized_url \notin seen_urls
             THEN <<Head(sources)>> \o
                  dedup_normalized(Tail(sources), seen_urls \cup {normalized_url})
             ELSE dedup_normalized(Tail(sources), seen_urls)

RECURSIVE ItemLines(_)
ItemLines(unique_sources) ==
    IF unique_sources = <<>> THEN <<>>
    ELSE <<"item", "blank">> \o ItemLines(Tail(unique_sources))

\* utils.formatter.format_sources, the deterministic formatter
format_sources(sources) ==
    IF sources = <<>> THEN <<>>
    ELSE LET unique_sources == dedup_normalized(sources, {})
         IN  IF unique_sources = <<>> THEN <<>>
             ELSE <<"src_hdr", "blank">> \o ItemLines(unique_sources)

RECURSIVE FirstSourcesHeader(_, _)
\* index of the first line holding '## Sources', 0 when there is none
FirstSourcesHeader(lines, i) ==
    IF i > Len(lines) THEN 0
    ELSE IF lines[i] = "src_hdr" THEN i
    ELSE FirstSourcesHeader(lines, i + 1)

\* SourcesFormatterAgent._parse_formatted_output
_parse_formatted_output(formatted_output, original_sources) ==
    LET found == FirstSourcesHeader(formatted_output, 1)
        sources_start == IF found = 0 THEN 1 ELSE found
        formatted == StripText(SubSeq(formatted_output, sources_start, Len(formatted_output)))
    IN  IF formatted = <<>> \/ TextLen(formatted) < MinSourcesChars
        THEN format_sources(original_sources)
        ELSE IF ~StartsWithHashes(formatted)
        THEN <<"src_hdr", "blank">> \o formatted
        ELSE formatted

\* SourcesFormatterAgent.format_sources: llm_raises is TRUE when generate
\* raises, formatted_output is the text it returns otherwise.
agent_format_sources(sources, llm_raises, formatted_output) ==
    IF sources = <<>> THEN <<>>
    ELSE IF llm_raises THEN format_sources(sources)
    ELSE IF StripText(formatted_output) = <<>> THEN format_sources(sources)
    ELSE _parse_formatted_output(formatted_output, sources)

\* A sources step without the deterministic fallback.
sources_markdown_no_fallback(sources, step_raises, llm_raises, formatted_output) ==
    IF step_raises \/ llm_raises THEN <<>>
    ELSE IF FirstSourcesHeader(formatted_output, 1) = 0 THEN <<>>
    ELSE StripText(SubSeq(formatted_output, FirstSourcesHeader(formatted_output, 1),
                          Len(formatted_output)))

\* The sources step of generate (lines 246-332): the block appended to the
\* document.  step_raises is TRUE when the try block raises.
sources_markdown(sources, step_raises, llm_raises, formatted_output) ==
    IF step_raises THEN format_sources(sources)
    ELSE LET agent_output == agent_format_sources(sources, llm_raises, formatted_output)
         IN  IF agent_output = <<>> \/ TextLen(StripText(agent_output)) < MinSourcesChars
             THEN format_sources(sources)
             ELSE agent_output

\* The texts the model returns to the formatting prompt.
FormatterTexts ==
    {<<>>, <<"blank">>, <<"short">>, <<"long">>,
     <<"src_hdr", "blank", "long">>, <<"short", "src_hdr", "long">>,
     <<"other_hdr", "long">>, <<"src_hdr", "short">>}

\* The sources research hands to the pipeline.
PipelineSourceLists ==
    {<<>>,
     <<MkSource("SearchResult", EmptyUrl, <<1, 1>>)>>,
     <<MkSource("SearchResult", UrlA, <<1, 1>>)>>,
     <<MkSource("dict", UrlA, <<1, 1>>), MkSource("dict", UrlASlash, <<2, 1>>)>>,
     <<MkSource("SearchResult", UrlA, <<1, 1>>), MkSource("SearchResult", UrlB, <<2, 1>>)>>}

(***************************************************************************)
(* SpecAgents: one call on a composition agent                             *)
(***************************************************************************)
\* The state of a call: the agent, its input map, the humanizer's settings
\* (self.enabled, the passes argument and self.passes), the position, the pass and current_dict of
\* the humanizer's loop, the generation calls issued so far (the prompt's
\* pass number, 1 for the writer and the editor), whether one of them
\* raised, and the map returned (<<>> while running or when the call raised).
AgentCall(agent, article_dict, enabled, passes, pc, result) ==
    <<[agent |-> agent, article_dict |-> article_dict, enabled |-> enabled,
       configured_passes |-> passes, passes |-> clamp_passes(passes), pc |-> pc, pass_num |-> 1, current_dict |-> article_dict,
       pass_dicts |-> <<>>, gen_log |-> <<>>, gen_failed |-> FALSE, result |-> result]>>

\* The writer has no input map.
NoSections == [k \in {} |-> ""]

InitAgents ==
    /\ kin = NoKeyRun
    /\ kout = <<>>
    /\ st = <<>> /\ ag = <<>> /\ rt = <<>> /\ px = <<>>
    /\ pl = PlIdle
    /\ disk = EmptyDisk
    /\ search_config = NoCfg
    /\ provider_config = NoCfg
    /\ rs = RsIdle
    /\ cw = NoSavers

\* WriterAgent.write up to its generation call (lines 25-80).
WriterWrite ==
    /\ ag = <<>>
    /\ ag' = AgentCall("writer", NoSections, TRUE, 1, "generate", <<>>)
    /\ UNCHANGED <<st, rt, px, kin, kout, disk, search_config, provider_config, rs, pl, cw>>

\* WriterAgent.write from the generation call on (lines 80-90): the parse
\* of the response is returned; an exception of generate leaves write.
WriterGenerate(failed, parsed) ==
    /\ ag # <<>> /\ ag[1].agent = "writer" /\ ag[1].pc = "generate"
    /\ ag' = <<[ag[1] EXCEPT !.gen_log = Append(@, 1),
                            !.gen_failed = failed,
                            !.pc = IF failed THEN "raised" ELSE "returned",
                            !.result = IF failed THEN <<>> ELSE <<parsed>>]>>
    /\ UNCHANGED <<st, rt, px, kin, kout, disk, search_config, provider_config, rs, pl, cw>>

\* EditorAgent.edit up to its generation call (lines 25-56).
EditorEdit(article_dict) ==
    /\ ag = <<>>
    /\ ag' = AgentCall("editor", article_dict, TRUE, 1, "generate", <<>>)
    /\ UNCHANGED <<st, rt, px, kin, kout, disk, search_config, provider_config, rs, pl, cw>>

\* An edit that catches the exception of generate and returns its input.
EditorGenerate_returns_input(failed, parsed) ==
    /\ ag # <<>> /\ ag[1].agent = "editor" /\ ag[1].pc = "generate"
    /\ ag' = <<[ag[1] EXCEPT !.gen_log = Append(@, 1),
                            !.gen_failed = failed,
                            !.pc = "returned",
                            !.result = IF failed THEN <<ag[1].article_dict>>
                                       ELSE <<merge_with_original(ag[1].article_dict, parsed)>>]>>
    /\ UNCHANGED <<st, rt, px, kin, kout, disk, search_config, provider_config, rs, pl, cw>>

\* EditorAgent.edit from the generation call on (lines 56-72): parse and
\* merge; there is no try around generate, its exception leaves edit.
EditorGenerate(failed, parsed) ==
    /\ ag # <<>> /\ ag[1].agent = "editor" /\ ag[1].pc = "generate"
    /\ ag' = <<[ag[1] EXCEPT !.gen_log = Append(@, 1),
                            !.gen_failed = failed,
                            !.pc = IF failed THEN "raised" ELSE "returned",
                            !.result = IF failed THEN <<>>
                                       ELSE <<merge_with_original(ag[1].article_dict, parsed)>>]>>
    /\ UNCHANGED <<st, rt, px, kin, kout, disk, search_config, provider_config, rs, pl, cw>>

\* A humanize that runs its passes although the agent is disabled.
HumanizerHumanize_ignores_enabled(article_dict, enabled, passes) ==
    /\ ag = <<>>
    /\ ag' = AgentCall("humanizer", article_dict, enabled, passes,
                       "generate", <<>>)
    /\ UNCHANGED <<st, rt, px, kin, kout, disk, search_config, provider_config, rs, pl, cw>>

\* HumanizerAgent(enabled, passes).humanize up to the loop (lines 29-78):
\* a disabled agent returns its input at once.
HumanizerHumanize(article_dict, enabled, passes) ==
    /\ ag = <<>>
    /\ ag' = IF ~enabled
             THEN AgentCall("humanizer", article_dict, enabled, passes,
                            "returned", <<article_dict>>)
             ELSE AgentCall("humanizer", article_dict, enabled, passes,
                            "generate", <<>>)
    /\ UNCHANGED <<st, rt, px, kin, kout, disk, search_config, provider_config, rs, pl, cw>>

\* A pass that is issued a second time when its generation call raised.
HumanizerPass_retries(failed, parsed) ==
    /\ ag # <<>> /\ ag[1].agent = "humanizer" /\ ag[1].pc = "generate"
    /\ LET a == [ag[1] EXCEPT !.gen_log = Append(@, ag[1].pass_num)]
       IN  ag' = IF failed
                 THEN <<[a EXCEPT !.gen_log = Append(@, ag[1].pass_num)]>>
                 ELSE IF a.pass_num < a.passes
                 THEN <<[a EXCEPT !.current_dict = parsed, !.pass_dicts = Append(@, parsed), !.pass_num = @ + 1]>>
                 ELSE <<[a EXCEPT !.current_dict = parsed, !.pass_dicts = Append(@, parsed), !.pc = "returned",
                                  !.result = <<merge_with_original(a.article_dict, parsed)>>]>>
    /\ UNCHANGED <<st, rt, px, kin, kout, disk, search_config, provider_config, rs, pl, cw>>

\* A loop whose passes each keep the sections the pass before them had
\* and their own parse lacks.
HumanizerPass_accumulates(failed, parsed) ==
    /\ ag # <<>> /\ ag[1].agent = "humanizer" /\ ag[1].pc = "generate"
    /\ LET a == [ag[1] EXCEPT !.gen_log = Append(@, ag[1].pass_num)]
           kept == [k \in DOMAIN parsed \cup DOMAIN a.current_dict |->
                      IF k \in DOMAIN parsed THEN parsed[k] ELSE a.current_dict[k]]
       IN  ag' = IF failed
                 THEN <<[a EXCEPT !.gen_failed = TRUE, !.pc = "raised"]>>
                 ELSE IF a.pass_num < a.passes
                 THEN <<[a EXCEPT !.current_dict = kept, !.pass_dicts = Append(@, parsed), !.pass_num = @ + 1]>>
                 ELSE <<[a EXCEPT !.current_dict = kept, !.pass_dicts = Append(@, parsed), !.pc = "returned",
                                  !.result = <<merge_with_original(a.article_dict, kept)>>]>>
    /\ UNCHANGED <<st, rt, px, kin, kout, disk, search_config, provider_config, rs, pl, cw>>

\* One pass of the loop of humanize (lines 79-103) and, after the last
\* pass, the merge against the input (lines 105-113).
HumanizerPass(failed, parsed) ==
    /\ ag # <<>> /\ ag[1].agent = "humanizer" /\ ag[1].pc = "generate"
    /\ LET a == [ag[1] EXCEPT !.gen_log = Append(@, ag[1].pass_num)]
       IN  ag' = IF failed
                 THEN <<[a EXCEPT !.gen_failed = TRUE, !.pc = "raised"]>>
                 ELSE IF a.pass_num < a.passes
                 THEN <<[a EXCEPT !.current_dict = parsed, !.pass_dicts = Append(@, parsed), !.pass_num = @ + 1]>>
                 ELSE <<[a EXCEPT !.current_dict = parsed, !.pass_dicts = Append(@, parsed), !.pc = "returned",
                                  !.result = <<merge_with_original(a.article_dict, parsed)>>]>>
    /\ UNCHANGED <<st, rt, px, kin, kout, disk, search_config, provider_config, rs, pl, cw>>

NextAgents ==
    \/ WriterWrite
    \/ \E failed \in BOOLEAN, parsed \in ParsedMaps("written") : WriterGenerate(failed, parsed)
    \/ \E article_dict \in ParsedMaps("written") : EditorEdit(article_dict)
    \/ \E failed \in BOOLEAN, parsed \in ParsedMaps("edited") : EditorGenerate(failed, parsed)
    \/ \E article_dict \in ParsedMaps("edited"), enabled \in BOOLEAN,
          passes \in 0..MaxConfiguredPasses :
            HumanizerHumanize(article_dict, enabled, passes)
    \/ \E failed \in BOOLEAN, i \in 1..MaxPasses : \E parsed \in ParsedMaps(PassBody[i]) :
          ag # <<>> /\ i = ag[1].pass_num /\ HumanizerPass(failed, parsed)

SpecAgents == InitAgents /\ [][NextAgents]_vars

(***************************************************************************)
(* The section parser: texts, names and the tag strategy                   *)
(*                                                                         *)
(* A text is a sequence of tokens, a token is a record [t, n]:             *)
(*   nl   a line break               sp   a space                          *)
(*   w    a word, n = <<word>>       ho   <headline>                       *)
(*   hc   </headline>                so   <section name="n">               *)
(*   sc   </section>                 hl   HEADLINE:                        *)
(*   mk   ---SECTION: n---           h2   ##                               *)
(*   h1   #                                                                *)
(* A section name is a sequence of characters; a word counts as one        *)
(* character.  A section map is a Python dict: a sequence of [k, v]        *)
(* records in insertion order with distinct keys; a value is a text.       *)
(***************************************************************************)
Token(t, n) == [t |-> t, n |-> n]

NL == Token("nl", <<>>)
SP == Token("sp", <<>>)
W(word) == Token("w", <<word>>)
HO == Token("ho", <<>>)
HC == Token("hc", <<>>)
SO(name) == Token("so", name)
SC == Token("sc", <<>>)
HL == Token("hl", <<>>)
MK(name) == Token("mk", name)
H2 == Token("h2", <<>>)
H1 == Token("h1", <<>>)

IsWhitespace(tok) == tok.t \in {"nl", "sp"}

\* str.strip()
RECURSIVE strip(_)
strip(text) ==
    IF text = <<>> THEN <<>>
    ELSE IF IsWhitespace(Head(text)) THEN strip(Tail(text))
    ELSE IF IsWhitespace(text[Len(text)]) THEN strip(SubSeq(text, 1, Len(text) - 1))
    ELSE text

\* str.rstrip()
RECURSIVE rstrip(_)
rstrip(text) ==
    IF text # <<>> /\ IsWhitespace(text[Len(text)])
    THEN rstrip(SubSeq(text, 1, Len(text) - 1)) ELSE text

FirstIndex(S) == CHOOSE i \in S : \A j \in S : i <= j

\* The positions of the tokens of kind t from position `from` on.
Positions(text, t, from) == {i \in from..Len(text) : text[i].t = t}

\* text.split('\n')
RECURSIVE split_lines(_)
split_lines(text) ==
    LET nls == Positions(text, "nl", 1)
    IN  IF nls = {} THEN <<text>>
        ELSE <<SubSeq(text, 1, FirstIndex(nls) - 1)>>
             \o split_lines(SubSeq(text, FirstIndex(nls) + 1, Len(text)))

\* The characters of a token and of a text, as a name is read from a line:
\* a word counts as one character.
token_chars(tok) ==
    IF tok.t = "w" THEN tok.n
    ELSE IF tok.t = "sp" THEN <<" ">>
    ELSE IF tok.t = "ho" THEN <<"<", "headline", ">">>
    ELSE IF tok.t = "hc" THEN <<"</", "headline", ">">>
    ELSE IF tok.t = "sc" THEN <<"</", "section", ">">>
    ELSE IF tok.t = "so" THEN <<"<", "section", " ", "name", "=", "\"">> \o tok.n \o <<"\"", ">">>
    ELSE IF tok.t = "hl" THEN <<"HEADLINE", ":">>
    ELSE IF tok.t = "mk" THEN <<"---", "SECTION", ":", " ">> \o tok.n \o <<"---">>
    ELSE IF tok.t = "h2" THEN <<"##">>
    ELSE IF tok.t = "h1" THEN <<"#">>
    ELSE <<"\n">>

RECURSIVE text_chars(_)
text_chars(text) ==
    IF text = <<>> THEN <<>> ELSE token_chars(Head(text)) \o text_chars(Tail(text))

TitleName == <<"title">>
HeadlineName == <<"headline">>
OpeningName == <<"opening">>
LeadName == <<"lead">>

\* name.lower().replace(' ', '_')
normalize_name(name) ==
    [i \in 1..Len(name) |-> IF Lower(name[i]) = " " THEN "_" ELSE Lower(name[i])]

\* a in b, for strings
IsSubstring(a, b) ==
    \E i \in 0..(Len(b) - Len(a)) : SubSeq(b, i + 1, i + Len(a)) = a

Contains(list, name) == \E i \in 1..Len(list) : list[i] = name

\* The test of the matching loops: equal, or one inside the other.
name_matches(section_name, normalized_name) ==
    \/ LowerStr(section_name) = normalized_name
    \/ IsSubstring(LowerStr(section_name), normalized_name)
    \/ IsSubstring(normalized_name, LowerStr(section_name))

\* The matching loop (xml_parser.py lines 57-63): the first known name that
\* passes the test, <<>> for None.
match_section(section_names, normalized_name) ==
    LET hits == {i \in 1..Len(section_names) :
                     name_matches(section_names[i], normalized_name)}
    IN  IF hits = {} THEN <<>> ELSE <<section_names[FirstIndex(hits)]>>

\* dict operations
DictHas(dict, k) == \E i \in 1..Len(dict) : dict[i].k = k

DictGet(dict, k) == dict[CHOOSE i \in 1..Len(dict) : dict[i].k = k].v

DictSet(dict, k, v) ==
    IF DictHas(dict, k)
    THEN [i \in 1..Len(dict) |-> IF dict[i].k = k THEN [k |-> k, v |-> v] ELSE dict[i]]
    ELSE Append(dict, [k |-> k, v |-> v])

\* Store a headline under 'title' or, without that name, under 'headline'
\* (lines 35-40); without either name the dict is left alone.
store_headline(dict, section_names, headline_text) ==
    IF Contains(section_names, TitleName) THEN DictSet(dict, TitleName, headline_text)
    ELSE IF Contains(section_names, HeadlineName) THEN DictSet(dict, HeadlineName, headline_text)
    ELSE dict

\* The body of the first match of the headline pattern, stripped; <<>>
\* without a match (re.search with a non-greedy body over the whole text).
headline_match(text) ==
    LET opens == Positions(text, "ho", 1)
        closes == IF opens = {} THEN {} ELSE Positions(text, "hc", FirstIndex(opens) + 1)
    IN  IF closes = {} THEN <<>>
        ELSE strip(SubSeq(text, FirstIndex(opens) + 1, FirstIndex(closes) - 1))

\* The matches of the section pattern from position `from` on (re.finditer
\* with a non-greedy body): an opening tag and everything up to the next
\* closing tag; the search goes on behind that closing tag.
RECURSIVE section_matches(_, _)
section_matches(text, from) ==
    LET opens == Positions(text, "so", from)
        closes == IF opens = {} THEN {} ELSE Positions(text, "sc", FirstIndex(opens) + 1)
    IN  IF closes = {} THEN <<>>
        ELSE <<[name |-> text[FirstIndex(opens)].n,
                body |-> SubSeq(text, FirstIndex(opens) + 1, FirstIndex(closes) - 1)]>>
             \o section_matches(text, FirstIndex(closes) + 1)

\* The loop over the section matches (lines 46-80).
RECURSIVE store_sections(_, _, _, _)
store_sections(dict, matches, section_names, original_sections) ==
    IF matches = <<>> THEN dict
    ELSE LET section_content == strip(Head(matches).body)
             normalized_name == normalize_name(Strip(Head(matches).name))
             known == match_section(section_names, normalized_name)
             matched_section ==
                 IF known # <<>> THEN known
                 ELSE match_section(original_sections, normalized_name)
             d == IF section_content = <<>> THEN dict
                  ELSE IF matched_section # <<>>
                  THEN DictSet(dict, matched_section[1], section_content)
                  ELSE DictSet(dict, normalized_name, section_content)
         IN  store_sections(d, Tail(matches), section_names, original_sections)

\* parse_xml_sections: the dict; parsed_sections is empty exactly when the
\* dict is.
parse_xml_sections(article_text, section_names, original_sections) ==
    LET headline_text == headline_match(article_text)
        with_headline ==
            IF headline_text # <<>> THEN store_headline(<<>>, section_names, headline_text)
            ELSE <<>>
    IN  store_sections(with_headline, section_matches(article_text, 1),
                       section_names, original_sections)

(***************************************************************************)
(* The section parser: the fallback strategies                             *)
(***************************************************************************)
\* extract_headline_from_text: the headline of a headline tag or, without
\* one, the rest of the line behind the first HEADLINE:; <<>> for None.
extract_headline_from_text(article_text) ==
    LET by_tag == headline_match(article_text)
        hls == Positions(article_text, "hl", 1)
        behind == SubSeq(article_text, FirstIndex(hls) + 1, Len(article_text))
    IN  IF by_tag # <<>> THEN by_tag
        ELSE IF hls = {} THEN <<>>
        ELSE strip(split_lines(behind)[1])

\* Fallback 1: the dict and the text that the later fallbacks work on.  When
\* a headline was found and the text has a HEADLINE:, the text is cut down
\* to the lines behind the line of the first HEADLINE:.
fallback_headline(article_text, section_names) ==
    LET headline_text == extract_headline_from_text(article_text)
        hls == Positions(article_text, "hl", 1)
        behind == split_lines(SubSeq(article_text, FirstIndex(hls) + 1, Len(article_text)))
    IN  IF headline_text = <<>> THEN [dict |-> <<>>, text |-> article_text]
        ELSE [dict |-> store_headline(<<>>, section_names, headline_text),
              text |-> IF hls = {} THEN article_text
                       ELSE IF Len(behind) > 1 THEN JoinWith(Tail(behind), NL)
                       ELSE <<>>]

\* The matching of a marker or header name: the known names and, in the
\* humanizer, the names of the original sections after them.
match_known(parser, section_names, original_sections, normalized) ==
    LET known == match_section(section_names, normalized)
    IN  IF known # <<>> \/ parser # "humanizer" THEN known
        ELSE match_section(original_sections, normalized)

\* lines[0].strip().rstrip('---').strip() for the block behind a marker:
\* the name of the marker, and with more text on the marker's line the
\* name, the dashes and that text.
marker_name(marker, rest_of_line) ==
    IF rstrip(rest_of_line) = <<>> THEN Strip(marker.n)
    ELSE Strip(marker.n \o <<"---">> \o text_chars(rstrip(rest_of_line)))

\* The loop over the blocks behind the ---SECTION: markers, at the marker
\* in position m.  A block without a line break is skipped; a matched name
\* is stored even with empty content.
RECURSIVE store_blocks(_, _, _, _, _, _)
store_blocks(dict, text, m, parser, section_names, original_sections) ==
    LET later == Positions(text, "mk", m + 1)
        next == IF later = {} THEN Len(text) + 1 ELSE FirstIndex(later)
        block == SubSeq(text, m + 1, next - 1)
        nls == Positions(block, "nl", 1)
        section_content == strip(SubSeq(block, FirstIndex(nls) + 1, Len(block)))
        normalized_marker ==
            normalize_name(marker_name(text[m], SubSeq(block, 1, FirstIndex(nls) - 1)))
        matched_section == match_known(parser, section_names, original_sections,
                                       normalized_marker)
        d == IF nls = {} THEN dict
             ELSE IF matched_section # <<>>
             THEN DictSet(dict, matched_section[1], section_content)
             ELSE IF section_content # <<>>
             THEN DictSet(dict, normalized_marker, section_content)
             ELSE dict
    IN  IF later = {} THEN d
        ELSE store_blocks(d, text, next, parser, section_names, original_sections)

\* Fallback 2: the text before the first marker becomes the opening (or
\* the lead), the blocks become sections.
fallback_delimiters(dict, text, parser, section_names, original_sections) ==
    LET m == FirstIndex(Positions(text, "mk", 1))
        first_part == strip(SubSeq(text, 1, m - 1))
        d == IF first_part = <<>> \/ first_part = <<HL>> THEN dict
             ELSE IF Contains(section_names, OpeningName) /\ ~DictHas(dict, OpeningName)
             THEN DictSet(dict, OpeningName, first_part)
             ELSE IF Contains(section_names, LeadName) /\ ~DictHas(dict, LeadName)
             THEN DictSet(dict, LeadName, first_part)
             ELSE dict
    IN  store_blocks(d, text, m, parser, section_names, original_sections)

NotH2(tok) == tok.t # "h2"

NotHash(tok) == tok.t \notin {"h1", "h2"}

\* The name a ## header selects.  The writer compares the header text as it
\* stands, the editor and the humanizer compare the normalized text.
header_section(parser, section_names, original_sections, header_text) ==
    LET hits == {i \in 1..Len(section_names) :
                    \/ IsSubstring(LowerStr(section_names[i]), LowerStr(header_text))
                    \/ IsSubstring(LowerStr(header_text), LowerStr(section_names[i]))}
        matched == IF parser = "writer"
                   THEN IF hits = {} THEN <<>> ELSE <<section_names[FirstIndex(hits)]>>
                   ELSE match_known(parser, section_names, original_sections,
                                    normalize_name(header_text))
    IN  IF matched # <<>> THEN matched[1] ELSE normalize_name(header_text)

\* if current_section and current_content: store the joined content
flush_section(st3) ==
    IF st3.current_section # <<>> /\ st3.current_content # <<>>
    THEN DictSet(st3.dict, st3.current_section, strip(JoinWith(st3.current_content, NL)))
    ELSE st3.dict

\* Fallback 3: the loop over the lines.  current_section is <<>> for None
\* and for the empty name, which the code treats alike.  In the writer and
\* the humanizer a line before any header becomes the headline when the
\* dict has none yet.
RECURSIVE parse_headers(_, _, _, _, _)
parse_headers(st3, lines, parser, section_names, original_sections) ==
    IF lines = <<>> THEN flush_section(st3)
    ELSE LET line == Head(lines)
             line_stripped == strip(line)
             next ==
                 IF line_stripped # <<>> /\ line_stripped[1].t = "h2"
                 THEN [dict |-> flush_section(st3),
                       current_section |->
                           header_section(parser, section_names, original_sections,
                               Strip(text_chars(SelectSeq(line_stripped, NotH2)))),
                       current_content |-> <<>>]
                 ELSE IF line_stripped # <<>> /\ line_stripped[1].t = "h1"
                 THEN [dict |-> store_headline(flush_section(st3), section_names,
                                    strip(SelectSeq(line_stripped, NotHash))),
                       current_section |-> <<>>,
                       current_content |-> <<>>]
                 ELSE IF st3.current_section # <<>>
                 THEN [st3 EXCEPT !.current_content = Append(@, line)]
                 ELSE IF /\ parser # "editor"
                         /\ line_stripped # <<>>
                         /\ ~DictHas(st3.dict, TitleName)
                         /\ ~DictHas(st3.dict, HeadlineName)
                 THEN [st3 EXCEPT !.dict = store_headline(@, section_names, line_stripped)]
                 ELSE st3
         IN  parse_headers(next, Tail(lines), parser, section_names, original_sections)

\* A parser that knows the tag strategy only.
parse_sections_tags_only(parser, article_text, section_names, original_sections) ==
    parse_xml_sections(article_text, section_names,
                       IF parser = "humanizer" THEN original_sections ELSE <<>>)

\* _parse_article_sections of the writer and of the editor and
\* _parse_humanized_sections: the tag strategy, then the fallbacks.
parse_sections(parser, article_text, section_names, original_sections) ==
    LET by_tags == parse_xml_sections(article_text, section_names,
                       IF parser = "humanizer" THEN original_sections ELSE <<>>)
        f1 == fallback_headline(article_text, section_names)
        has_markers == Positions(f1.text, "mk", 1) # {}
        f2 == IF has_markers
              THEN fallback_delimiters(f1.dict, f1.text, parser, section_names,
                                       original_sections)
              ELSE f1.dict
    IN  IF by_tags # <<>> THEN by_tags
        ELSE IF has_markers /\ f2 # <<>> THEN f2
        ELSE parse_headers([dict |-> f2, current_section |-> <<>>,
                            current_content |-> <<>>],
                           split_lines(f1.text), parser, section_names, original_sections)

(***************************************************************************)
(* SpecParser: a text is parsed, rendered for a prompt and parsed again    *)
(***************************************************************************)
MaxPieces == 3

SubheadlineName == <<"sub", "headline">>

\* The part of section_order (editor_agent.py lines 168-172) that the names
\* of the model fall in.
SectionOrder == <<TitleName, HeadlineName, SubheadlineName, LeadName, OpeningName>>

\* The sections that are rendered through the headline tag.
HeadlineKeys == {TitleName, HeadlineName}

\* <section name="...">, the content, </section> and an empty line for a
\* section with content (lines 185-193 and 196-203).
section_lines(dict, section_name) ==
    IF ~DictHas(dict, section_name) \/ strip(DictGet(dict, section_name)) = <<>>
    THEN <<>>
    ELSE <<<<SO(section_name)>>, strip(DictGet(dict, section_name)), <<SC>>, <<>>>>

\* The sections named in section_order, in that order.
RECURSIVE ordered_lines(_, _)
ordered_lines(dict, i) ==
    IF i > Len(SectionOrder) THEN <<>>
    ELSE (IF SectionOrder[i] \in HeadlineKeys THEN <<>>
          ELSE section_lines(dict, SectionOrder[i]))
         \o ordered_lines(dict, i + 1)

\* The remaining sections in the order of the dict.
RECURSIVE remaining_lines(_, _)
remaining_lines(dict, i) ==
    IF i > Len(dict) THEN <<>>
    ELSE (IF Contains(SectionOrder, dict[i].k) THEN <<>>
          ELSE section_lines(dict, dict[i].k))
         \o remaining_lines(dict, i + 1)

\* _format_article_for_editing / _format_article_for_humanization
format_article_for_prompt(article_dict) ==
    LET headline_content ==
            IF DictHas(article_dict, HeadlineName) THEN DictGet(article_dict, HeadlineName)
            ELSE IF DictHas(article_dict, TitleName) THEN DictGet(article_dict, TitleName)
            ELSE <<>>
    IN  JoinWith((IF headline_content # <<>>
                  THEN <<<<HO>> \o headline_content \o <<HC>>, <<>>>>
                  ELSE <<>>)
                 \o ordered_lines(article_dict, 1) \o remaining_lines(article_dict, 1),
                 NL)

\* The pieces the texts of the model are put together from.  A # and a ##
\* are followed by a space.
TextPieces ==
    {<<NL>>, <<SP>>, <<W("x")>>, <<HO>>, <<HC>>,
     <<SO(SubheadlineName)>>, <<SO(<<"sub", " ", "headline">>)>>, <<SO(<<"A">>)>>, <<SC>>,
     <<HL>>, <<MK(OpeningName)>>,
     <<H2, SP, W("sub"), W("headline")>>, <<H1, SP>>}

RECURSIVE concat(_)
concat(pieces) == IF pieces = <<>> THEN <<>> ELSE Head(pieces) \o concat(Tail(pieces))

ParserTexts == {concat(pieces) : pieces \in SeqsUpTo(TextPieces, MaxPieces)}

\* The lists of section names of the templates.
KnownNameLists ==
    {<<HeadlineName, SubheadlineName, OpeningName>>,
     <<TitleName, HeadlineName, <<"a">>>>,
     <<OpeningName, <<"sub", "_", "headline">>>>,
     <<>>}

\* The keys of the map the humanizer was given.
OriginalSectionLists == {<<>>, <<<<"a">>>>}

Parsers == {"writer", "editor", "humanizer"}

InitParser ==
    /\ kin = NoKeyRun
    /\ kout = <<>>
    /\ st = <<>> /\ ag = <<>> /\ rt = <<>>
    /\ pl = PlIdle
    /\ disk = EmptyDisk
    /\ search_config = NoCfg
    /\ provider_config = NoCfg
    /\ rs = RsIdle
    /\ \E parser \in Parsers, text \in ParserTexts, names \in KnownNameLists,
          original \in OriginalSectionLists :
            /\ parser # "humanizer" => original = <<>>
            /\ px = [parser |-> parser, text |-> text, section_names |-> names,
                     original_sections |-> original, pc |-> "text",
                     dict |-> <<>>, rendered |-> <<>>, dict2 |-> <<>>]
    /\ cw = NoSavers

\* The response of the model is parsed.
ParseText ==
    /\ px # <<>> /\ px.pc = "text"
    /\ px' = [px EXCEPT !.pc = "parsed",
                        !.dict = parse_sections(px.parser, px.text, px.section_names,
                                                px.original_sections)]
    /\ UNCHANGED <<st, ag, rt, kin, kout, disk, search_config, provider_config, rs, pl, cw>>

\* The map is rendered for the next prompt and the rendered text is parsed
\* with the same names.
RenderAndParse ==
    /\ px # <<>> /\ px.pc = "parsed"
    /\ LET rendered == format_article_for_prompt(px.dict)
       IN  px' = [px EXCEPT !.pc = "reparsed",
                            !.rendered = rendered,
                            !.dict2 = parse_sections(px.parser, rendered, px.section_names,
                                                     px.original_sections)]
    /\ UNCHANGED <<st, ag, rt, kin, kout, disk, search_config, provider_config, rs, pl, cw>>

NextParser == ParseText \/ RenderAndParse

SpecParser == InitParser /\ [][NextParser]_vars

(***************************************************************************)
(* ArticlePipeline.generate                                                *)
(***************************************************************************)
MinTopicChars == 3

MaxSearchResults == 100

\* A validation that only asks for a non-blank topic.
validate_topic_non_blank(topic) == topic # <<>> /\ Strip(topic) # <<>>

\* validate_topic (validation.py lines 14-18): TRUE when the topic passes.
validate_topic(topic) ==
    /\ topic # <<>> /\ Strip(topic) # <<>>
    /\ ~(Len(Strip(topic)) < MinTopicChars)

\* validate_media_type (lines 31-39): TRUE when the media type passes.
validate_media_type(media_type, valid_types) ==
    media_type # "" /\ media_type \in valid_types

\* validate_length (lines 51-60): TRUE when the length passes.
validate_length(length) ==
    length # "" /\ length \in {"short", "medium", "long"}

\* validate_max_results (lines 72-79) on an integer: TRUE when it passes.
validate_max_results(max_results) ==
    ~(max_results <= 0) /\ ~(max_results > MaxSearchResults)

\* The keys of the tones configuration, config.article.media_type and
\* config.article.length.
ValidMediaTypes == {"tech_news", "scientific_journal"}
ConfigMediaType == "tech_news"
ConfigLength == "medium"

\* The arguments generate is called with ("" for None or an empty string).
GenerateTopics ==
    {<<>>, <<" ", " ", " ">>, <<" ", "a", "a", " ">>, <<"a", "a", "a">>}
GenerateMediaTypes == {"", "tech_news", "unknown"}
GenerateLengths == {"", "huge"}
ConfigMaxResults == {0, 1, MaxSearchResults, MaxSearchResults + 1}

\* The start of generate (lines 78-89): the arguments are validated, with
\* the configured media type and length standing in for missing ones; a
\* ValidationError leaves generate.
PipelineValidate(topic, media_type_arg, length_arg) ==
    /\ pl.pc = "idle"
    /\ LET media_type == IF media_type_arg # "" THEN media_type_arg ELSE ConfigMediaType
           length == IF length_arg # "" THEN length_arg ELSE ConfigLength
           p == [pl EXCEPT !.topic = topic, !.media_type = media_type_arg,
                           !.length = length_arg]
           passes == /\ validate_topic(topic)
                     /\ validate_media_type(media_type, ValidMediaTypes)
                     /\ validate_length(length)
                     /\ validate_max_results(pl.search_max_results)
       IN  pl' = IF passes THEN [p EXCEPT !.pc = "research"]
                 ELSE [p EXCEPT !.pc = "raised", !.raised_by = "validation"]
    /\ UNCHANGED <<st, ag, rt, px, kin, kout, disk, search_config, provider_config, rs, cw>>

\* Step 1 (lines 106-141): research raises or returns its result.
PipelineResearch(failed, sources) ==
    /\ pl.pc = "research"
    /\ pl' = IF failed
             THEN [pl EXCEPT !.pc = "raised", !.raised_by = "research",
                             !.research_calls = @ + 1]
             ELSE [pl EXCEPT !.pc = "write", !.research_sources = sources,
                             !.research_calls = @ + 1]
    /\ UNCHANGED <<st, ag, rt, px, kin, kout, disk, search_config, provider_config, rs, cw>>

\* Step 2 (lines 143-168): WriterAgent.write, one generation call and a
\* parse; an exception is re-raised.
PipelineWrite(failed, parsed) ==
    /\ pl.pc = "write"
    /\ pl' = IF failed
             THEN [pl EXCEPT !.pc = "raised", !.raised_by = "writer",
                             !.gen_calls.writer = @ + 1]
             ELSE [pl EXCEPT !.pc = "edit", !.article_dict = parsed,
                             !.gen_calls.writer = @ + 1]
    /\ UNCHANGED <<st, ag, rt, px, kin, kout, disk, search_config, provider_config, rs, cw>>

\* A continuation that records the map only after stripping it.
after_composition_stores_stripped(p, humanized_dict) ==
    [p EXCEPT !.humanized_dict = strip_sources_sections(humanized_dict),
              !.final_dict = strip_sources_sections(humanized_dict),
              !.pc = IF p.include_sources /\ p.research_sources # <<>>
                     THEN "format_sources" ELSE "returned"]

\* The steps after the composition stages that need no external call
\* (lines 220-239): strip the sources sections, render the body, and decide
\* whether the sources step runs.
after_composition(p, humanized_dict) ==
    [p EXCEPT !.humanized_dict = humanized_dict,
              !.final_dict = strip_sources_sections(humanized_dict),
              !.pc = IF p.include_sources /\ p.research_sources # <<>>
                     THEN "format_sources" ELSE "returned"]

\* An edit step that re-raises like the write step does.
PipelineEdit_reraises(failed, parsed) ==
    /\ pl.pc = "edit"
    /\ LET edited_dict == merge_with_original(pl.article_dict, parsed)
           p == [pl EXCEPT !.edited_dict = edited_dict, !.edit_parsed = parsed,
                           !.gen_calls.editor = @ + 1]
       IN  pl' = IF failed
                 THEN [pl EXCEPT !.pc = "raised", !.raised_by = "editor",
                                 !.gen_calls.editor = @ + 1]
                 ELSE IF pl.humanizer_enabled
                 THEN [p EXCEPT !.pc = "humanize", !.pass_num = 1,
                                !.current_dict = edited_dict]
                 ELSE after_composition(p, edited_dict)
    /\ UNCHANGED <<st, ag, rt, px, kin, kout, disk, search_config, provider_config, rs, cw>>

\* Step 3 (lines 170-193): EditorAgent.edit; on an exception the article
\* continues with the writer's map.
PipelineEdit(failed, parsed) ==
    /\ pl.pc = "edit"
    /\ LET edited_dict == IF failed THEN pl.article_dict
                          ELSE merge_with_original(pl.article_dict, parsed)
           p == [pl EXCEPT !.edited_dict = edited_dict,
                           !.edit_parsed = IF failed THEN <<>> ELSE parsed,
                           !.failed = IF failed THEN @ \cup {"editor"} ELSE @,
                           !.gen_calls.editor = @ + 1]
       IN  pl' = IF pl.humanizer_enabled
                 THEN [p EXCEPT !.pc = "humanize", !.pass_num = 1,
                                !.current_dict = edited_dict]
                 ELSE after_composition(p, edited_dict)
    /\ UNCHANGED <<st, ag, rt, px, kin, kout, disk, search_config, provider_config, rs, cw>>

\* A humanize step that keeps the passes completed before a failing pass.
PipelineHumanizePass_keeps_passes(failed, parsed) ==
    /\ pl.pc = "humanize"
    /\ LET passes == clamp_passes(pl.humanizer_passes)
           p == [pl EXCEPT !.gen_calls.humanizer = @ + 1]
       IN  pl' = IF failed
                 THEN after_composition([p EXCEPT !.failed = @ \cup {"humanizer"}],
                                        merge_with_original(pl.edited_dict, pl.current_dict))
                 ELSE IF pl.pass_num < passes
                 THEN [p EXCEPT !.current_dict = parsed, !.pass_num = @ + 1]
                 ELSE after_composition([p EXCEPT !.current_dict = parsed],
                                        merge_with_original(pl.edited_dict, parsed))
    /\ UNCHANGED <<st, ag, rt, px, kin, kout, disk, search_config, provider_config, rs, cw>>

\* Step 4 (lines 195-220 and HumanizerAgent.humanize lines 77-113): one pass
\* of the humanizer, a generation call and a parse.  An exception leaves
\* humanize; generate continues with the edited map.
PipelineHumanizePass(failed, parsed) ==
    /\ pl.pc = "humanize"
    /\ LET passes == clamp_passes(pl.humanizer_passes)
           p == [pl EXCEPT !.gen_calls.humanizer = @ + 1]
       IN  pl' = IF failed
                 THEN after_composition([p EXCEPT !.failed = @ \cup {"humanizer"}],
                                        pl.edited_dict)
                 ELSE IF pl.pass_num < passes
                 THEN [p EXCEPT !.current_dict = parsed, !.pass_num = @ + 1]
                 ELSE after_composition([p EXCEPT !.current_dict = parsed],
                                        merge_with_original(pl.edited_dict, parsed))
    /\ UNCHANGED <<st, ag, rt, px, kin, kout, disk, search_config, provider_config, rs, cw>>

\* Step 5 (lines 238-344): the sources block is formatted and appended and
\* generate returns.
PipelineFormatSources(step_raises, llm_raises, formatted_output) ==
    /\ pl.pc = "format_sources"
    /\ pl' = [pl EXCEPT !.pc = "returned",
                        !.sources_block = sources_markdown(pl.research_sources,
                                              step_raises, llm_raises, formatted_output),
                        !.failed = IF step_raises \/ llm_raises
                                   THEN @ \cup {"formatter"} ELSE @,
                        !.gen_calls.formatter = IF step_raises THEN @ ELSE @ + 1]
    /\ UNCHANGED <<st, ag, rt, px, kin, kout, disk, search_config, provider_config, rs, cw>>

InitPipeline ==
    /\ kin = NoKeyRun
    /\ st = <<>> /\ ag = <<>> /\ rt = <<>> /\ px = <<>>
    /\ kout = <<>>
    /\ disk = EmptyDisk
    /\ search_config = NoCfg
    /\ provider_config = NoCfg
    /\ rs = RsIdle
    /\ \E enabled \in BOOLEAN, passes \in 0..MaxConfiguredPasses, include \in BOOLEAN,
          max_results \in ConfigMaxResults :
            pl = PlConfigured(enabled, passes, include, max_results)
    /\ cw = NoSavers

NextPipeline ==
    \/ \E topic \in GenerateTopics, media_type \in GenerateMediaTypes,
          length \in GenerateLengths : PipelineValidate(topic, media_type, length)
    \/ \E failed \in BOOLEAN, sources \in PipelineSourceLists :
          PipelineResearch(failed, sources)
    \/ \E failed \in BOOLEAN, parsed \in ParsedMaps("written") :
          PipelineWrite(failed, parsed)
    \/ \E failed \in BOOLEAN, parsed \in ParsedMaps("edited") :
          PipelineEdit(failed, parsed)
    \/ \E failed \in BOOLEAN, i \in 1..MaxPasses : \E parsed \in ParsedMaps(PassBody[i]) :
          i = pl.pass_num /\ PipelineHumanizePass(failed, parsed)
    \/ \E step_raises \in BOOLEAN, llm_raises \in BOOLEAN, text \in FormatterTexts :
          PipelineFormatSources(step_raises, llm_raises, text)

SpecPipeline == InitPipeline /\ [][NextPipeline]_vars

(***************************************************************************)
(* Properties of the cache and of the research stage                       *)
(***************************************************************************)
\* The key the research call of this run addresses.
KeyOfCall == get_cache_key(rs.topic, rs.user_context, rs.cfg)

\* The research call has produced its result (it is saving or has ended).
Assembled == rs.pc \in {"save", "returned", "raised"} /\ ~rs.cache_hit

\* The metadata file of directory e carries a version other than the
\* running CACHE_VERSION.
StaleVersion(e) ==
    /\ e.metadata # NoFile
    /\ e.metadata[1].valid
    /\ e.metadata[1].content.version # CACHE_VERSION

\* C1: an entry whose stored metadata version differs from CACHE_VERSION is
\* never returned by load_research, and research never returns it as a
\* cache hit.
C1_StaleVersionNeverLoaded ==
    (rs.pc # "idle" /\ rs.use_cache /\ StaleVersion(disk[KeyOfCall]))
        => /\ load_research(disk, rs.topic, rs.user_context, rs.cfg) = <<>>
           /\ ~rs.cache_hit

\* Two topics differ only in letter case and in leading/trailing whitespace.
SameUpToCaseAndOuterSpace(t1, t2) == LowerStr(Strip(t1)) = LowerStr(Strip(t2))

\* C2: for a fixed user context and search config, two topics that differ
\* only in letter case or leading/trailing whitespace get the same cache key.
C2_KeyIgnoresCaseAndOuterSpace ==
    (kout # <<>> /\ SameUpToCaseAndOuterSpace(kin.t1, kin.t2)) => kout[1] = kout[2]

\* sub is all with some records left out, and every record kept is the
\* first record of all with its url.
RECURSIVE FirstOccurrenceSublist(_, _, _)
FirstOccurrenceSublist(sub, all, seen) ==
    IF sub = <<>> THEN TRUE
    ELSE IF all = <<>> THEN FALSE
    ELSE IF Head(all) = Head(sub) /\ Head(all).url \notin seen
         THEN FirstOccurrenceSublist(Tail(sub), Tail(all), seen \cup {Head(all).url})
         ELSE FirstOccurrenceSublist(sub, Tail(all), seen \cup {Head(all).url})

\* C3: the sources of every freshly assembled result have pairwise distinct
\* normalized URLs and are a first-occurrence sub-list of the concatenated
\* search results.
C3_SourcesDistinctNormalized ==
    Assembled =>
        /\ \A i, j \in 1..Len(rs.result.sources) :
              i # j => normalize_url_for_dedup(rs.result.sources[i].url)
                         # normalize_url_for_dedup(rs.result.sources[j].url)
        /\ FirstOccurrenceSublist(rs.result.sources, rs.all_results, {})

\* C8: save_research never raises, so a failing cache write never makes
\* research fail.
C8_SaveNeverRaises == rs.pc # "raised"

\* C9: a research call with use_cache that finds a loadable entry for its key
\* returns that entry at once, with no search call and no generation call.
C9_CacheHitReturnsEntry ==
    [][ (/\ rs.pc = "idle" /\ rs'.pc # "idle"
         /\ rs'.use_cache
         /\ load_research(disk, rs'.topic, rs'.user_context, rs'.cfg) # <<>>)
        => (/\ rs'.pc = "returned"
            /\ rs'.result = load_research(disk, rs'.topic, rs'.user_context, rs'.cfg)[1]
            /\ rs'.gen_calls = 0
            /\ rs'.search_log = <<>>
            /\ disk' = disk) ]_vars

\* C9 witness: a call answered from the cache.
C9_Witness ==
    /\ rs.pc = "returned" /\ rs.cache_hit /\ rs.use_cache
    /\ Len(rs.result.sources) > 0

\* C10: every result research returns has at most max_results sources,
\* fresh or loaded from the cache.
C10_AtMostMaxResults ==
    rs.pc = "returned" => Len(rs.result.sources) <= rs.max_results

(***************************************************************************)
(* Properties of the pipeline                                              *)
(***************************************************************************)
PipelineEnded == pl.pc \in {"returned", "raised"}

SecondPassFailed ==
    /\ pl.pc \in {"format_sources", "returned"}
    /\ "humanizer" \in pl.failed
    /\ clamp_passes(pl.humanizer_passes) = 2
    /\ pl.pass_num = 2

\* C5 as claimed: when the second of two passes fails, the humanization step
\* yields the map produced after pass 1.
C5_SecondPassFailureKeepsPassOne ==
    SecondPassFailed =>
        pl.humanized_dict = merge_with_original(pl.edited_dict, pl.current_dict)

\* C5: when the second of two passes fails, the humanization step yields
\* the map the humanizer was given (the editor stage's output).
C5_SecondPassFailureKeepsInput ==
    SecondPassFailed => pl.humanized_dict = pl.edited_dict

\* C5 witness: the second pass failed after a first pass that changed a
\* section.
C5_Witness ==
    /\ SecondPassFailed
    /\ merge_with_original(pl.edited_dict, pl.current_dict) # pl.edited_dict

\* R has the keys of M, with the body of P where P has the key and of M
\* elsewhere.
MergedFrom(R, M, P) ==
    /\ DOMAIN R = DOMAIN M
    /\ \A k \in DOMAIN M : R[k] = IF k \in DOMAIN P THEN P[k] ELSE M[k]

EditSucceeded ==
    pl.pc \in {"humanize", "format_sources", "returned"} /\ "editor" \notin pl.failed

HumanizeSucceeded ==
    /\ pl.pc \in {"format_sources", "returned"}
    /\ pl.humanizer_enabled
    /\ "humanizer" \notin pl.failed

\* C6: the map a successful edit or humanize returns has exactly the keys of
\* its input M, with the parsed body P[k] where P has k and M[k] elsewhere.
C6_MergeKeepsInputKeys ==
    /\ EditSucceeded => MergedFrom(pl.edited_dict, pl.article_dict, pl.edit_parsed)
    /\ HumanizeSucceeded => MergedFrom(pl.humanized_dict, pl.edited_dict, pl.current_dict)

\* C6 witness: both stages succeeded on parses that lack a key of the input
\* and carry a key the input lacks.
C6_Witness ==
    /\ EditSucceeded /\ HumanizeSucceeded
    /\ DOMAIN pl.article_dict \ DOMAIN pl.edit_parsed # {}
    /\ DOMAIN pl.edit_parsed \ DOMAIN pl.article_dict # {}
    /\ DOMAIN pl.edit_parsed \cap DOMAIN pl.article_dict # {}
    /\ DOMAIN pl.edited_dict \ DOMAIN pl.current_dict # {}
    /\ DOMAIN pl.current_dict \ DOMAIN pl.edited_dict # {}
    /\ DOMAIN pl.current_dict \cap DOMAIN pl.edited_dict # {}

\* The document carries a sources block: a '##' header line followed by at
\* least one line of entries.
HasSourcesBlock ==
    /\ StartsWithHashes(pl.sources_block)
    /\ \E i \in 2..Len(pl.sources_block) : pl.sources_block[i] \in {"item", "long", "short"}

MetadataVersion(e) ==
    IF e.metadata = NoFile \/ ~e.metadata[1].valid THEN <<>>
    ELSE <<e.metadata[1].content.version>>

\* The entry the last store call addressed.
StoreEntry == disk[get_cache_key(st[1].topic, st[1].user_context, st[1].cfg)]

\* C11: exists returns true if and only if the data file and the metadata
\* file of the derived key are both present and the metadata's version is
\* the running version constant.
C11_ExistsIffBothFilesAndVersion ==
    (st # <<>> /\ st[1].op = "exists") =>
        (st[1].ok <=> (/\ StoreEntry.research # NoFile
                       /\ StoreEntry.metadata # NoFile
                       /\ MetadataVersion(StoreEntry) = <<CACHE_VERSION>>))

\* exists was asked about an entry with both files and another version and
\* reported it as non-existent.
C11_Witness ==
    /\ st # <<>> /\ st[1].op = "exists"
    /\ StoreEntry.research # NoFile
    /\ MetadataVersion(StoreEntry) = <<OldVersion>>
    /\ ~st[1].ok

(***************************************************************************)
(* Properties of the composition agents                                    *)
(***************************************************************************)
\* C12 as claimed: when the generation call of the Editor raises, edit
\* returns the untouched input map and does not raise.
C12_EditorReturnsInputOnFailure ==
    (ag # <<>> /\ ag[1].agent = "editor" /\ ag[1].gen_failed) =>
        (ag[1].pc = "returned" /\ ag[1].result = <<ag[1].article_dict>>)

\* C12 amended: when the generation call of the Editor raises, edit raises
\* to its caller and returns no map.
C12_EditorRaisesOnFailure ==
    (ag # <<>> /\ ag[1].agent = "editor" /\ ag[1].gen_failed) =>
        (ag[1].pc = "raised" /\ ag[1].result = <<>>)

\* The generation call of an edit on a non-empty map raised.
C12_Witness ==
    /\ ag # <<>> /\ ag[1].agent = "editor" /\ ag[1].gen_failed
    /\ DOMAIN ag[1].article_dict # {}
    /\ ag[1].gen_log = <<1>>

(***************************************************************************)
(* Properties of the pipeline's fallbacks                                  *)
(***************************************************************************)
\* The pipeline is past its composition stages.
PastComposition == pl.pc \in {"format_sources", "returned"}

\* C13: when the Editor fails the article continues with exactly the
\* Writer's map; when the Humanizer fails it continues with exactly the map
\* of the stage before it, the Editor's output or, if the Editor failed
\* too, the Writer's output.
C13_FallbackToPreviousStage ==
    /\ ("editor" \in pl.failed /\ pl.pc \in {"humanize", "format_sources", "returned"})
          => pl.edited_dict = pl.article_dict
    /\ ("humanizer" \in pl.failed /\ PastComposition)
          => /\ pl.humanized_dict = pl.edited_dict
             /\ "editor" \in pl.failed => pl.humanized_dict = pl.article_dict
             /\ "editor" \notin pl.failed =>
                   pl.humanized_dict = merge_with_original(pl.article_dict, pl.edit_parsed)

\* Both the Editor and the Humanizer failed on a writer's map that has a
\* sources section, after a first humanizer pass that succeeded.
C13_Witness ==
    /\ PastComposition
    /\ {"editor", "humanizer"} \subseteq pl.failed
    /\ "sources" \in DOMAIN pl.article_dict
    /\ pl.pass_num = 2

(***************************************************************************)
(* Properties of the retry wrapper                                         *)
(***************************************************************************)
\* The wrapped function raises an exception on its failing attempts.
RaisesOnFailure == rt[1].kind \in {"requests", "other"}

\* The call through the wrapper is over.
RetryEnded == rt # <<>> /\ rt[1].pc \in {"returned", "raised"}

\* C14: a function that raises on its first k attempts, k <= max_retries,
\* and then succeeds is called exactly k+1 times and the wrapper returns
\* its value; a function that raises on every attempt makes the wrapper
\* raise that exception.
C14_RetryUntilSuccess ==
    (RetryEnded /\ RaisesOnFailure) =>
        IF rt[1].fails <= rt[1].max_retries
        THEN rt[1].pc = "returned" /\ rt[1].calls = rt[1].fails + 1
        ELSE rt[1].pc = "raised" /\ rt[1].raised = rt[1].kind

(***************************************************************************)
(* Properties of the humanizer's switch and of the generation calls        *)
(***************************************************************************)
\* C15: a disabled Humanizer returns its input map unchanged and issues no
\* generation call.
C15_DisabledHumanizerReturnsInput ==
    (ag # <<>> /\ ag[1].agent = "humanizer" /\ ~ag[1].enabled) =>
        /\ ag[1].pc = "returned"
        /\ ag[1].result = <<ag[1].article_dict>>
        /\ ag[1].gen_log = <<>>

\* A disabled humanizer was called on a map with sections.
C15_Witness ==
    /\ ag # <<>> /\ ag[1].agent = "humanizer" /\ ~ag[1].enabled
    /\ ag[1].pc = "returned"
    /\ DOMAIN ag[1].article_dict = SectionNames

\* The pass numbers 1..n in order.
PassesUpTo(n) == [i \in 1..n |-> i]

\* min(3, max(1, p))
ClampedPasses(p) ==
    LET lo == IF p > 1 THEN p ELSE 1 IN IF lo < 3 THEN lo ELSE 3

\* C16: an enabled Humanizer whose generation calls all succeed issues
\* exactly min(3, max(1, p)) generation calls, one per pass in pass order;
\* the Writer and the Editor issue exactly one generation call per
\* invocation; no stage issues a generation call twice.
C16_OneGenerationCallPerPass ==
    ag # <<>> =>
        /\ (ag[1].agent = "humanizer" /\ ag[1].enabled /\ ag[1].pc = "returned")
              => ag[1].gen_log = PassesUpTo(ClampedPasses(ag[1].configured_passes))
        /\ (ag[1].agent \in {"writer", "editor"} /\ ag[1].pc \in {"returned", "raised"})
              => ag[1].gen_log = <<1>>
        /\ ag[1].gen_log = PassesUpTo(Len(ag[1].gen_log))

\* A humanizer configured with more than three passes returned after three
\* generation calls.
C16_Witness ==
    /\ ag # <<>> /\ ag[1].agent = "humanizer" /\ ag[1].enabled
    /\ ag[1].pc = "returned"
    /\ ag[1].configured_passes > 3
    /\ ag[1].gen_log = <<1, 2, 3>>

(***************************************************************************)
(* Properties of the validation of generate's arguments                    *)
(***************************************************************************)
\* The media type and the length in effect: the argument or, without one,
\* the configured value.
EffectiveMediaType == IF pl.media_type # "" THEN pl.media_type ELSE ConfigMediaType
EffectiveLength == IF pl.length # "" THEN pl.length ELSE ConfigLength

\* The topic is empty, whitespace-only or shorter than 3 characters after
\* trimming, the media type is unknown, the length is not one of the three
\* or max_results is outside 1..100.
InvalidArguments ==
    \/ Len(Strip(pl.topic)) < 3
    \/ EffectiveMediaType \notin ValidMediaTypes
    \/ EffectiveLength \notin {"short", "medium", "long"}
    \/ pl.search_max_results \notin 1..100

\* C17: generate rejects invalid arguments with a ValidationError before
\* any search-provider call, generation call or cache access.
C17_InvalidArgumentsRejectedFirst ==
    (pl.pc # "idle" /\ InvalidArguments) =>
        /\ pl.pc = "raised" /\ pl.raised_by = "validation"
        /\ pl.research_calls = 0
        /\ \A a \in DOMAIN pl.gen_calls : pl.gen_calls[a] = 0

\* generate was called with a topic of two characters between spaces and
\* arguments that are valid otherwise.
C17_Witness ==
    /\ pl.pc = "raised" /\ pl.raised_by = "validation"
    /\ pl.topic = <<" ", "a", "a", " ">>
    /\ EffectiveMediaType \in ValidMediaTypes
    /\ EffectiveLength = "medium"
    /\ pl.search_max_results = 100

(***************************************************************************)
(* Properties of the section parser                                        *)
(***************************************************************************)
\* A text of words, spaces and line breaks only: no tag, no HEADLINE:, no
\* ---SECTION: marker and no #.
MarkerFree(text) == \A i \in 1..Len(text) : text[i].t \in {"nl", "sp", "w"}

\* The first line of a text that is not blank, trimmed.
FirstPlainLine(text) == strip(split_lines(strip(text))[1])

\* C18, as stated: for a text in which no strategy recognises anything the
\* parser of every stage returns an empty section map.
C18_MarkerFreeTextGivesEmptyMap ==
    (px # <<>> /\ px.pc # "text" /\ MarkerFree(px.text)) => px.dict = <<>>

\* C18, amended: for a text of words, spaces and line breaks only, the
\* editor's parser returns an empty map; the writer's and the humanizer's
\* parser store the first non-blank line, trimmed, under 'title' or, when
\* 'title' is not a known name, under 'headline', and return an empty map
\* only when the text is blank or neither name is known.  Every text has a
\* map as its result: no step of the parser raises.
C18_MarkerFreeTextGivesHeadlineOrEmptyMap ==
    (px # <<>> /\ px.pc # "text" /\ MarkerFree(px.text)) =>
        px.dict =
            IF px.parser = "editor" \/ strip(px.text) = <<>> THEN <<>>
            ELSE IF Contains(px.section_names, TitleName)
            THEN <<[k |-> TitleName, v |-> FirstPlainLine(px.text)]>>
            ELSE IF Contains(px.section_names, HeadlineName)
            THEN <<[k |-> HeadlineName, v |-> FirstPlainLine(px.text)]>>
            ELSE <<>>

\* A text of two lines of words was parsed by the writer's parser, which
\* kept the first line as the title.
C18_Witness ==
    /\ px # <<>> /\ px.pc = "parsed" /\ px.parser = "writer"
    /\ MarkerFree(px.text)
    /\ Len(split_lines(strip(px.text))) = 2
    /\ px.dict = <<[k |-> TitleName, v |-> <<W("x")>>]>>

\* The known names that the declared name of a section tag equals once it
\* is normalized.
ExactNames(section_names, declared_name) ==
    {section_names[j] : j \in {j \in 1..Len(section_names) :
        LowerStr(section_names[j]) = normalize_name(Strip(declared_name))}}

\* C19: in the tag strategy a section tag with content whose normalized
\* declared name equals a known section name is stored under that known
\* name, whatever other known names come earlier in the list.
C19_ExactMatchBeforeSubstringMatch ==
    (px # <<>> /\ px.pc # "text") =>
        \A i \in 1..Len(section_matches(px.text, 1)) :
            LET match == section_matches(px.text, 1)[i]
            IN  strip(match.body) # <<>> =>
                    \A name \in ExactNames(px.section_names, match.name) :
                        DictHas(px.dict, name)

\* A dict as a map: its pairs, whatever their order.
AsMap(dict) == {<<dict[i].k, dict[i].v>> : i \in 1..Len(dict)}

\* C20: the map that the parser returned for a text, rendered as tagged
\* text and parsed again with the same known names, comes back as the same
\* map.
C20_RenderedMapParsesBack ==
    (px # <<>> /\ px.pc = "reparsed") => AsMap(px.dict2) = AsMap(px.dict)

(***************************************************************************)
(* Properties of invalidate and of failing saves                           *)
(***************************************************************************)
\* The key the call recorded in st' addressed.
CalledKey == get_cache_key(st'[1].topic, st'[1].user_context, st'[1].cfg)

\* The step is a call of the store operation op.
StoreStep(op) == st' # <<>> /\ st'[1].op = op

\* C21, as stated: invalidate returns true exactly when an entry of the
\* derived key is present, and the entry is gone after it.
C21_InvalidateReturnsPresence ==
    [][StoreStep("invalidate") =>
          /\ st'[1].ok <=> disk[CalledKey].dir
          /\ disk'[CalledKey] = NoDir]_vars

\* C21, amended: invalidate never raises; it returns true exactly when the
\* directory of the derived key was present and its removal went through,
\* and then the entry is gone; it returns false and changes nothing when
\* the directory is absent; it returns false when the removal fails.  The
\* entries of the other keys are unchanged.  An entry that is gone gives
\* false on exists and None on load, and only a save or an invalidate
\* changes an entry.
C21_InvalidateRemovesEntry ==
    [][/\ StoreStep("invalidate") =>
            /\ ~st'[1].raised
            /\ st'[1].ok => (disk[CalledKey].dir /\ disk'[CalledKey] = NoDir)
            /\ ~disk[CalledKey].dir => (~st'[1].ok /\ disk' = disk)
            /\ (disk[CalledKey].dir /\ disk'[CalledKey] = NoDir) => st'[1].ok
            /\ \A k \in DiskKeys : k # CalledKey => disk'[k] = disk[k]
            /\ st'[1].ok =>
                  /\ ~cache_exists(disk', st'[1].topic, st'[1].user_context, st'[1].cfg)
                  /\ load_research(disk', st'[1].topic, st'[1].user_context,
                                   st'[1].cfg) = <<>>
       /\ disk' # disk => (StoreStep("save") \/ StoreStep("invalidate"))]_vars

\* invalidate removed an entry that exists reported, and returned true.
C21_Witness ==
    /\ st # <<>> /\ st[1].op = "invalidate" /\ st[1].ok
    /\ StoreEntry = NoDir
    /\ \E k \in DiskKeys : disk[k] # NoDir

(***************************************************************************)
(* Properties of the search loop                                           *)
(***************************************************************************)
\* The search loop of a fresh research is over.
SearchesDone == ~rs.cache_hit /\ rs.pc \in {"synthesize", "extract", "save", "returned", "raised"}

\* The results of the search calls that succeeded, in the order of the calls.
RECURSIVE SucceededResults(_)
SucceededResults(log) ==
    IF log = <<>> THEN <<>>
    ELSE (IF Head(log).ok THEN Head(log).results ELSE <<>>) \o SucceededResults(Tail(log))

\* C22: a fresh research with n generated queries issues min(3, n) search
\* calls, for the first queries in their order, whichever of the calls
\* fail; the results of all the calls that succeeded are merged, in the
\* order of the calls, into the list the sources of the result are taken
\* from.
C22_EverySearchIssuedFailuresSkipped ==
    SearchesDone =>
        /\ Len(rs.search_log) =
              (IF Len(rs.search_queries) < MaxExecutedQueries
               THEN Len(rs.search_queries) ELSE MaxExecutedQueries)
        /\ \A i \in 1..Len(rs.search_log) : rs.search_log[i].query = rs.search_queries[i]
        /\ rs.all_results = SucceededResults(rs.search_log)
        /\ rs.unique_results =
              limit_results(remove_duplicates(SucceededResults(rs.search_log)),
                            rs.max_results)
        /\ rs.pc = "returned" => rs.result.sources = rs.unique_results

\* Three searches were issued, the second failed, and the result holds a
\* source of the first and a source of the third.
C22_Witness ==
    /\ SearchesDone /\ rs.pc = "returned"
    /\ Len(rs.search_log) = 3
    /\ rs.search_log[1].ok /\ ~rs.search_log[2].ok /\ rs.search_log[3].ok
    /\ Len(rs.result.sources) = 2
    /\ rs.result.sources[1] \in {rs.search_log[1].results[i] : i \in 1..Len(rs.search_log[1].results)}
    /\ rs.result.sources[2] \in {rs.search_log[3].results[i] : i \in 1..Len(rs.search_log[3].results)}

(***************************************************************************)
(* Properties of saves that fail and of saves that race                    *)
(***************************************************************************)
\* C23: a save that returns false leaves the answers of exists and of load
\* for its key as they were immediately before it.
C23_FailedSaveChangesNothing ==
    [][(StoreStep("save") /\ ~st'[1].raised /\ ~st'[1].ok) =>
          /\ cache_exists(disk', st'[1].topic, st'[1].user_context, st'[1].cfg)
               = cache_exists(disk, st'[1].topic, st'[1].user_context, st'[1].cfg)
          /\ load_research(disk', st'[1].topic, st'[1].user_context, st'[1].cfg)
               = load_research(disk, st'[1].topic, st'[1].user_context, st'[1].cfg)]_vars

(***************************************************************************)
(* Properties of the provider calls under the retry wrapper                *)
(***************************************************************************)
\* A call of a provider through its decorator is over.
ProviderCallEnded == RetryEnded /\ rt[1].transport # "none"

\* C24: a provider call whose transport fails is attempted again; it
\* returns when the transport recovers within the retries, and the
\* provider error reaches the caller only after max_retries + 1 attempts.
C24_TransportFailureIsRetried ==
    ProviderCallEnded =>
        IF rt[1].fails <= rt[1].max_retries
        THEN rt[1].pc = "returned" /\ rt[1].calls = rt[1].fails + 1
        ELSE /\ rt[1].pc = "raised" /\ rt[1].raised = "provider_error"
             /\ rt[1].calls = rt[1].max_retries + 1

(***************************************************************************)
(* Properties of the passes of the humanizer                               *)
(***************************************************************************)
\* An enabled humanizer returned after at least two passes.
MultiPassReturned ==
    /\ ag # <<>> /\ ag[1].agent = "humanizer" /\ ag[1].enabled
    /\ ag[1].pc = "returned" /\ Len(ag[1].pass_dicts) >= 2

\* The parse of the last pass.
LastPassDict == ag[1].pass_dicts[Len(ag[1].pass_dicts)]

\* C25: after a humanization of several passes, a section of the input map
\* that the parse of the last pass lacks has the value of the input map in
\* the result, whatever the earlier passes had for it.
C25_MissingSectionTakesOriginal ==
    MultiPassReturned =>
        \A k \in DOMAIN ag[1].article_dict \ DOMAIN LastPassDict :
            /\ k \in DOMAIN ag[1].result[1]
            /\ ag[1].result[1][k] = ag[1].article_dict[k]

\* The first pass produced a section that the last pass lacks, and the
\* result carries the input's value for it.
C25_Witness ==
    /\ MultiPassReturned
    /\ \E k \in DOMAIN ag[1].article_dict \ DOMAIN LastPassDict :
          /\ k \in DOMAIN ag[1].pass_dicts[1]
          /\ ag[1].pass_dicts[1][k] # ag[1].article_dict[k]
          /\ ag[1].result[1][k] = ag[1].article_dict[k]

(***************************************************************************)
(* Properties of two concurrent saves                                      *)
(***************************************************************************)
\* Both runs returned True from save_research.
BothSaved == cw # NoSavers /\ \A w \in Savers : cw.s[w].pc = "returned"

\* C26: once two concurrent saves under one key have both returned true,
\* exists is true for the key and load returns exactly the data of one of
\* the two runs.
C26_ConcurrentSavesLastWriterWins ==
    BothSaved =>
        /\ race_cache_exists
        /\ race_load_research \in {<<cw.s[1].data>>, <<cw.s[2].data>>}

(***************************************************************************)
(* Properties of a fresh research call under provider failures             *)
(***************************************************************************)
\* C27: whatever generation and search calls fail, a fresh research call
\* moves on through its steps and returns a result whose search_queries
\* hold between one and five queries, the topic alone when the query
\* generation failed; no step that calls a provider raises (only the write
\* to the cache can).
C27_ProviderFailuresNeverRaise ==
    [][/\ rs'.pc = "raised" => rs.pc = "save"
       /\ rs.pc = "gen_queries" =>
            /\ rs'.pc = "search"
            /\ Len(rs'.search_queries) \in 1..MaxGeneratedQueries
            /\ rs'.queries_failed => rs'.search_queries = <<TopicQuery(rs.topic)>>
       /\ rs.pc = "search" => rs'.pc \in {"search", "synthesize", "save", "returned"}
       /\ rs.pc = "synthesize" => rs'.pc = "extract"
       /\ rs.pc = "extract" => rs'.pc \in {"save", "returned"}
       /\ (rs'.pc = "returned" /\ ~rs'.cache_hit) =>
            /\ rs'.result.search_queries = rs'.search_queries
            /\ Len(rs'.result.search_queries) \in 1..MaxGeneratedQueries]_vars

\* A fresh call returned although the query generation and every search
\* call failed; its queries are the topic.
C27_Witness ==
    /\ rs.pc = "returned" /\ ~rs.cache_hit
    /\ rs.queries_failed
    /\ rs.search_log # <<>>
    /\ \A i \in 1..Len(rs.search_log) : ~rs.search_log[i].ok
    /\ rs.result.search_queries = <<TopicQuery(rs.topic)>>

(***************************************************************************)
(* Properties of the sections of the returned article                      *)
(***************************************************************************)
\* C28: for every run of generate that returns, whichever of the Editor and
\* the Humanizer succeeded or failed, the keys of the returned article_dict
\* are the keys of the Writer's output without sources and references.
C28_ReturnedKeysAreWritersKeys ==
    pl.pc = "returned" =>
        DOMAIN pl.final_dict = DOMAIN pl.article_dict \ {"sources", "references"}

\* A run returned whose Writer produced a sources section beside another
\* one, whose Editor's parse had other keys than the Writer's output and
\* whose Humanizer failed.
C28_Witness ==
    /\ pl.pc = "returned"
    /\ "sources" \in DOMAIN pl.article_dict
    /\ DOMAIN pl.final_dict # {}
    /\ pl.edit_parsed # <<>>
    /\ DOMAIN pl.edit_parsed \ DOMAIN pl.article_dict # {}
    /\ DOMAIN pl.article_dict \ DOMAIN pl.edit_parsed # {}
    /\ "humanizer" \in pl.failed

(***************************************************************************)
(* Properties of a research call that bypasses the cache                   *)
(***************************************************************************)
\* C29: a research call with use_cache false leaves the cache directory as
\* it was at every step, takes nothing from it and never reaches the save;
\* what it returns was assembled by this call from its own queries and
\* searches, whether or not the key has a valid entry.
C29_NoCacheUseWhenDisabled ==
    [][(rs'.pc # "idle" /\ ~rs'.use_cache) =>
          /\ disk' = disk
          /\ ~rs'.cache_hit
          /\ rs'.pc \notin {"save", "raised"}
          /\ rs'.save_ok = <<>>
          /\ rs'.pc = "returned" =>
                /\ rs'.gen_calls >= 1
                /\ rs'.search_log # <<>>
                /\ rs'.result = build_result(rs'.unique_results,
                                             rs'.result.key_findings,
                                             rs'.result.context,
                                             rs'.search_queries, rs'.user_context)]_vars

\* A call with use_cache false returned a fresh result while the key held
\* a valid, loadable entry.
C29_Witness ==
    /\ rs.pc = "returned" /\ ~rs.use_cache /\ ~rs.cache_hit
    /\ cache_exists(disk, rs.topic, rs.user_context, rs.cfg)
    /\ load_research(disk, rs.topic, rs.user_context, rs.cfg) # <<>>
    /\ load_research(disk, rs.topic, rs.user_context, rs.cfg) # <<rs.result>>

(***************************************************************************)
(* Properties of the entry written by a fresh research call                *)
(***************************************************************************)
\* A fresh research call with use_cache true has returned.
FreshCachedCallReturned(r) == r.pc = "returned" /\ r.use_cache /\ ~r.cache_hit

\* The entry of the key of call r is present and loads as the result of r.
EntryHoldsResultOf(r) ==
    /\ cache_exists(disk, r.topic, r.user_context, r.cfg)
    /\ load_research(disk, r.topic, r.user_context, r.cfg) = <<r.result>>

\* The call after call p took p's result from the cache and issued no
\* search and no generation call.
ReturnedFromCache(p) ==
    /\ rs.pc = "returned" /\ rs.cache_hit
    /\ rs.result = p.result
    /\ rs.gen_calls = 0 /\ rs.search_log = <<>>

\* C30: every fresh research call with use_cache true leaves an entry with
\* its result under its key, and a following call with the same arguments
\* returns that result with no search and no generation call.
C30_EveryFreshCallIsCached ==
    /\ (FreshCachedCallReturned(rs) /\ rs.prev = <<>>) => EntryHoldsResultOf(rs)
    /\ (rs.prev # <<>> /\ FreshCachedCallReturned(rs.prev[1]) /\ rs.use_cache)
          => ReturnedFromCache(rs.prev[1])

\* C30 amended: every fresh research call with use_cache true that returns
\* has called save_research, also when it found no source; when the save
\* returned True the entry is present and loads as the call's result, and
\* a following call with the same arguments and use_cache true returns that
\* result with no search and no generation call.
C30_SavedResultIsReturnedAgain ==
    /\ FreshCachedCallReturned(rs) =>
          /\ rs.save_ok # <<>>
          /\ rs.save_ok = <<TRUE>> => EntryHoldsResultOf(rs)
    /\ (/\ rs.prev # <<>> /\ FreshCachedCallReturned(rs.prev[1])
        /\ rs.prev[1].save_ok = <<TRUE>> /\ rs.use_cache)
          => ReturnedFromCache(rs.prev[1])

\* A call in which every search failed or returned nothing saved its
\* placeholder, and the following call returned it from the cache.
C30_Witness ==
    /\ rs.prev # <<>> /\ FreshCachedCallReturned(rs.prev[1])
    /\ rs.prev[1].save_ok = <<TRUE>>
    /\ rs.prev[1].searches > 0
    /\ rs.prev[1].failed_searches > 0
    /\ rs.prev[1].result.sources = <<>>
    /\ rs.use_cache /\ rs.cache_hit /\ rs.pc = "returned"
    /\ rs.result.sources = <<>>
    /\ rs.result.key_findings = no_source_findings(rs.user_context)

====
